---------------------------- MODULE Spec2Model ----------------------------
(***************************************************************************)
(* A model of the database access layer of word-rest-api: the deadpool     *)
(* connection pool held by Database (src/src/db.rs), the startup sequence  *)
(* of main (src/src/main.rs), the repository operations on users, posts    *)
(* and vocabulary, the request validation of src/src/models, and the       *)
(* classification of backend errors (src/src/error.rs).                    *)
(*                                                                         *)
(* Text is a sequence of one-character strings, so that trim, to_lowercase *)
(* and split are computed rather than assumed.  A UUID is an integer, a    *)
(* timestamp is the reading of the clock `now`.  The PostgreSQL store is   *)
(* the three tables users, posts and vocabulary with the constraints the   *)
(* DDL of Database::migrate declares.                                      *)
(***************************************************************************)
EXTENDS Integers, Sequences, FiniteSets, TLC

VARIABLES
    mainPc,      \* position of main(): "new" .. "serving" | "exited"
    healthOk,    \* history: a health-check round trip has succeeded
    migrated,    \* history: migrate() has returned Ok
    early,       \* history: a statement of an operation ran before migrate was Ok
    users,       \* table users: set of rows
    posts,       \* table posts: set of rows
    vocabulary,  \* table vocabulary: set of rows
    vocabSeq,    \* the SERIAL sequence behind vocabulary.id
    nextUuid,    \* number of UUIDs Uuid::new_v4() has handed out
    now,         \* the clock, in ticks of TickSecs seconds
    pc,          \* per task: "idle" | "acquire" | "exec" | "seed_insert"
    op,          \* per task: the operation called and its arguments
    res,         \* per task: the result of the last completed operation
    conn,        \* per task: holds a pooled connection
    stmt,        \* per task: the statement built and awaiting execution
    stmts,       \* per task, history: statements run on the borrowed connection
    reqStart,    \* per task: clock reading when the operation was called
    seedIdx,     \* per task: index of the next seed row to insert
    built,       \* the statement builder run on its own: [in, out, done]
    schema,      \* the objects migrate has created in the store
    mapped,      \* the error conversions run on their own: [raw, api, done]
    failed,      \* per task, history: what failed in the operation, if anything
    setup        \* the configuration loaded and the pool built from it, on their own

vars == <<mainPc, healthOk, migrated, early, users, posts, vocabulary, vocabSeq,
          nextUuid, now, pc, op, res, conn, stmt, stmts, reqStart, seedIdx,
          built, schema, mapped, failed, setup>>

-----------------------------------------------------------------------------
(* Bounds of the model *)

\* Concurrent callers of the repository operations.
NumTasks == 2
\* Concurrent request handlers in the pool specification (more than the pool holds).
NumPoolTasks == 3
\* UUIDs that Uuid::new_v4() hands out before create operations stop.
MaxUuid == 2
\* Last clock reading of the data specifications.
MaxStamp == 1
\* Rows of table vocabulary at which create_vocabulary is no longer called.
MaxVocab == 6
\* Last clock reading of the pool specification.
MaxClock == 4

Tasks == 1..NumPoolTasks
DataTasks == 1..NumTasks

-----------------------------------------------------------------------------
(* Option<T> *)

None == [some |-> FALSE, v |-> <<>>]
Some(x) == [some |-> TRUE, v |-> x]

-----------------------------------------------------------------------------
(* Text: str::trim, str::to_lowercase, str::split('@'), char classes *)

UpperChars == {"J", "K"}
LowerChars == {"j", "k", "x", "c", "n", "m"}

\* char::to_lowercase on the alphabet of the model.
LowerChar(c) ==
    CASE c = "J" -> "j"
      [] c = "K" -> "k"
      [] OTHER -> c

to_lowercase(s) == [i \in 1..Len(s) |-> LowerChar(s[i])]

IsWhitespace(c) == c = " "

RECURSIVE TrimStart(_)
TrimStart(s) ==
    IF s # <<>> /\ IsWhitespace(Head(s)) THEN TrimStart(Tail(s)) ELSE s

RECURSIVE TrimEnd(_)
TrimEnd(s) ==
    IF s # <<>> /\ IsWhitespace(s[Len(s)])
    THEN TrimEnd(SubSeq(s, 1, Len(s) - 1))
    ELSE s

trim(s) == TrimEnd(TrimStart(s))

is_alphanumeric(c) == c \in UpperChars \cup LowerChars

Contains(s, c) == \E i \in 1..Len(s) : s[i] = c

Count(s, c) == Cardinality({i \in 1..Len(s) : s[i] = c})

\* The position of the first '@' (0 when there is none).
AtPos(s) ==
    IF Contains(s, "@")
    THEN CHOOSE i \in 1..Len(s) : s[i] = "@" /\ \A j \in 1..(i - 1) : s[j] # "@"
    ELSE 0

LocalMax == 64
DomainMax == 253

is_valid_email(email) ==
    \* parts.len() != 2 : split('@') yields one part more than there are '@'
    IF Count(email, "@") # 1 THEN FALSE
    ELSE LET local == SubSeq(email, 1, AtPos(email) - 1)
             domain == SubSeq(email, AtPos(email) + 1, Len(email))
         IN  /\ ~(local = <<>> \/ Len(local) > LocalMax)
             /\ ~(domain = <<>> \/ Len(domain) > DomainMax)
             /\ Contains(domain, ".")
             /\ \A i \in 1..Len(local) :
                    is_alphanumeric(local[i]) \/ local[i] \in {".", "-", "_", "+"}
             /\ \A i \in 1..Len(domain) :
                    is_alphanumeric(domain[i]) \/ domain[i] \in {".", "-"}

-----------------------------------------------------------------------------
(* Request validation and normalisation: src/src/models/user.rs *)

NameMax == 100
EmailMax == 255

\* Result<(), String> of a validate(): the message of the Err, or Valid.
Valid == ""

\* CreateUserRequest::validate
CreateUserValidate(req) ==
    IF trim(req.name) = <<>> THEN "Name cannot be empty"
    ELSE IF Len(req.name) > NameMax THEN "Name cannot exceed 100 characters"
    ELSE IF trim(req.email) = <<>> THEN "Email cannot be empty"
    ELSE IF ~is_valid_email(req.email) THEN "Invalid email format"
    ELSE IF Len(req.email) > EmailMax THEN "Email cannot exceed 255 characters"
    ELSE Valid

\* The checks of UpdateUserRequest::validate on the fields that are present.
UpdateUserFieldsValidate(req) ==
    IF req.name.some /\ trim(req.name.v) = <<>> THEN "Name cannot be empty"
    ELSE IF req.name.some /\ Len(req.name.v) > NameMax
         THEN "Name cannot exceed 100 characters"
    ELSE IF req.email.some /\ trim(req.email.v) = <<>> THEN "Email cannot be empty"
    ELSE IF req.email.some /\ ~is_valid_email(req.email.v) THEN "Invalid email format"
    ELSE IF req.email.some /\ Len(req.email.v) > EmailMax
         THEN "Email cannot exceed 255 characters"
    ELSE Valid

\* validate() without its first check, "at least one field".
UpdateUserValidateNoEmptyCheck(req) == UpdateUserFieldsValidate(req)

\* UpdateUserRequest::validate
UpdateUserValidate(req) ==
    IF ~req.name.some /\ ~req.email.some
    THEN "At least one field (name or email) must be provided for update"
    ELSE UpdateUserFieldsValidate(req)

\* The email normalisation without the lower-casing.
NormalizeEmailKeepCase(e) == trim(e)

\* self.email.trim().to_lowercase(), shared by into_user and get_normalized_email.
NormalizeEmail(e) == to_lowercase(trim(e))

\* A User::new that reads the clock once for each of its two stamps.
IntoUserTwoClocks(req, id, t) ==
    [id |-> id, name |-> trim(req.name), email |-> NormalizeEmail(req.email),
     created_at |-> t, updated_at |-> t + 1]

\* User::new(name.trim(), email.trim().to_lowercase()) with id and clock supplied.
into_user(req, id, t) ==
    [id |-> id, name |-> trim(req.name), email |-> NormalizeEmail(req.email),
     created_at |-> t, updated_at |-> t]

get_normalized_name(req) ==
    IF req.name.some THEN Some(trim(req.name.v)) ELSE None

get_normalized_email(req) ==
    IF req.email.some THEN Some(NormalizeEmail(req.email.v)) ELSE None

-----------------------------------------------------------------------------
(* Bound parameters and the partial-update statement of update_user *)

TextParam(x) == [ty |-> "String", v |-> x]
TimeParam(x) == [ty |-> "DateTime<Utc>", v |-> x]
UuidParam(x) == [ty |-> "Uuid", v |-> x]

Push(s, e) == Append(s, e)

Assign(col, n) == [col |-> col, ph |-> n]

\* The builder with the email branch forgetting `param_count += 1`.
BuildUpdateUserStaleCount(name, email, updated_at, uuid) ==
    LET parts1 == IF name.some THEN <<Assign("name", 1)>> ELSE <<>>
        params1 == IF name.some THEN <<TextParam(name.v)>> ELSE <<>>
        count1 == IF name.some THEN 2 ELSE 1
        parts2 == IF email.some THEN Push(parts1, Assign("email", count1)) ELSE parts1
        params2 == IF email.some THEN Push(params1, TextParam(email.v)) ELSE params1
        parts3 == Push(parts2, Assign("updated_at", count1))
        params3 == Push(params2, TimeParam(updated_at))
    IN  [sql |-> "UPDATE users", set |-> parts3, where |-> count1 + 1,
         params |-> Push(params3, UuidParam(uuid))]

\* The builder with the email branch writing the name column (a pasted line).
BuildUpdateUserPastedColumn(name, email, updated_at, uuid) ==
    LET parts1 == IF name.some THEN <<Assign("name", 1)>> ELSE <<>>
        params1 == IF name.some THEN <<TextParam(name.v)>> ELSE <<>>
        count1 == IF name.some THEN 2 ELSE 1
        parts2 == IF email.some THEN Push(parts1, Assign("name", count1)) ELSE parts1
        params2 == IF email.some THEN Push(params1, TextParam(email.v)) ELSE params1
        count2 == IF email.some THEN count1 + 1 ELSE count1
        parts3 == Push(parts2, Assign("updated_at", count2))
        params3 == Push(params2, TimeParam(updated_at))
    IN  [sql |-> "UPDATE users", set |-> parts3, where |-> count2 + 1,
         params |-> Push(params3, UuidParam(uuid))]

\* update_user, from `let mut query_parts` to the format! of the statement:
\* query_parts, params and param_count as the code threads them.
BuildUpdateUser(name, email, updated_at, uuid) ==
    LET parts0 == <<>>
        params0 == <<>>
        count0 == 1
        \* if let Some(ref name) = normalized_name
        parts1 == IF name.some THEN Push(parts0, Assign("name", count0)) ELSE parts0
        params1 == IF name.some THEN Push(params0, TextParam(name.v)) ELSE params0
        count1 == IF name.some THEN count0 + 1 ELSE count0
        \* if let Some(ref email) = normalized_email
        parts2 == IF email.some THEN Push(parts1, Assign("email", count1)) ELSE parts1
        params2 == IF email.some THEN Push(params1, TextParam(email.v)) ELSE params1
        count2 == IF email.some THEN count1 + 1 ELSE count1
        \* updated_at is always appended
        parts3 == Push(parts2, Assign("updated_at", count2))
        params3 == Push(params2, TimeParam(updated_at))
        count3 == count2 + 1
        \* the WHERE parameter
        params4 == Push(params3, UuidParam(uuid))
    IN  [sql |-> "UPDATE users", set |-> parts3, where |-> count3, params |-> params4]

NoStmt == [sql |-> "none", set |-> <<>>, where |-> 0, params |-> <<>>]

-----------------------------------------------------------------------------
(* Backend errors and their classification: src/src/error.rs *)

\* A tokio_postgres::Error: its SQLSTATE (or "none") and the words of interest
\* its text contains.
RawError(code, words) == [code |-> code, words |-> words]
NoError == RawError("ok", {})

Api(kind, msg) == [kind |-> kind, msg |-> msg]

\* impl From<tokio_postgres::Error> for ApiError
FromPostgresError(err) ==
    CASE err.code = "UNIQUE_VIOLATION" ->
            Api("Conflict", IF "email" \in err.words
                            THEN "Email address already exists"
                            ELSE "Resource already exists")
      [] err.code = "FOREIGN_KEY_VIOLATION" ->
            Api("Validation", "Referenced resource does not exist")
      [] err.code = "NOT_NULL_VIOLATION" ->
            Api("Validation", IF "name" \in err.words
                              THEN "Required field 'name' is missing"
                              ELSE IF "email" \in err.words
                                   THEN "Required field 'email' is missing"
                                   ELSE "Required field is missing")
      [] err.code = "CHECK_VIOLATION" ->
            Api("Validation", "Data validation constraint violated")
      [] err.code = "INVALID_TEXT_REPRESENTATION" ->
            Api("Validation", "Invalid data format provided")
      [] err.code = "NUMERIC_VALUE_OUT_OF_RANGE" ->
            Api("Validation", "Numeric value is out of range")
      [] err.code = "STRING_DATA_LENGTH_MISMATCH" ->
            Api("Validation", "Text data exceeds maximum length")
      [] err.code \in {"CONNECTION_EXCEPTION", "CONNECTION_DOES_NOT_EXIST",
                       "CONNECTION_FAILURE"} ->
            Api("Database", "Database connection unavailable")
      [] err.code = "INSUFFICIENT_PRIVILEGE" ->
            Api("Database", "Database access denied")
      [] OTHER ->
            Api("Database", "Database operation failed")

\* impl From<deadpool_postgres::PoolError> for ApiError
FromPoolError(err) ==
    CASE err = "Timeout" -> Api("Database", "Database connection timeout")
      [] err = "Closed" -> Api("Database", "Database service unavailable")
      [] err = "NoRuntimeSpecified" -> Api("Internal", "Database configuration error")
      [] err = "PostCreateHook" -> Api("Database", "Database connection setup failed")
      [] OTHER -> Api("Database", "Database connection unavailable")

\* err.contains(w) for the words into_response looks for, on each message the
\* conversions above put into ApiError::Database.
Contains3(msg) ==
    CASE msg = "Database connection unavailable" -> {"connection", "unavailable"}
      [] msg = "Database connection timeout" -> {"connection", "timeout"}
      [] msg = "Database service unavailable" -> {"unavailable"}
      [] msg = "Database connection setup failed" -> {"connection"}
      [] OTHER -> {}

\* An into_response that surfaces the text ApiError::Database carries.
IntoResponseEcho(api) ==
    [status |-> 500, code |-> "DATABASE_ERROR", message |-> <<api.msg>>]

\* impl IntoResponse for ApiError: the status, the error code and the message
\* of the body (the pieces format! concatenates).
IntoResponse(api) ==
    CASE api.kind = "Database" ->
            [status |-> 500, code |-> "DATABASE_ERROR",
             message |->
                IF "timeout" \in Contains3(api.msg)
                THEN <<"Database operation timed out, please try again">>
                ELSE IF "unavailable" \in Contains3(api.msg)
                        \/ "connection" \in Contains3(api.msg)
                     THEN <<"Database service is temporarily unavailable">>
                     ELSE <<"A database error occurred">>]
      [] api.kind = "Validation" ->
            [status |-> 400, code |-> "VALIDATION_ERROR", message |-> <<api.msg>>]
      [] api.kind = "NotFound" ->
            [status |-> 404, code |-> "NOT_FOUND",
             message |-> <<api.msg, " not found">>]
      [] api.kind = "Conflict" ->
            [status |-> 409, code |-> "CONFLICT", message |-> <<api.msg>>]
      [] OTHER ->
            [status |-> 500, code |-> "INTERNAL_ERROR",
             message |-> <<"An internal server error occurred">>]

\* No conversion is being run on its own.
NoBody == [status |-> 0, code |-> "", message |-> <<>>]
NoMapped == [src |-> "none", raw |-> NoError, pool |-> "none",
             api |-> Api("none", ""), body |-> NoBody, step |-> 0]

\* The failures a statement can meet on its way to the store: the connection is
\* lost (with or without an SQLSTATE) or the role lacks the privilege.
TransportErrors ==
    {RawError("CONNECTION_FAILURE", {"connection"}),
     RawError("none", {"connection", "closed"})}

\* A result of an operation: the ApiError kind (or "Ok"), its message, and the
\* value returned on success.
Result(kind, msg, val) == [kind |-> kind, msg |-> msg, val |-> val]
NoResult == Result("none", "", None)
Ok(val) == Result("Ok", "", val)
\* An error that is dropped: the operation returns Ok(()).
ErrSwallowed(api) == Ok(None)

Err(api) == Result(api.kind, api.msg, None)

-----------------------------------------------------------------------------
(* The store: the tables as Database::migrate declares them *)

\* tokio_postgres ToSql::accepts / FromSql::accepts: the Rust type of a bound
\* parameter or a read field against the column type of the DDL.
TypeAccepts(rust, pgtype) ==
    CASE rust = "String" -> pgtype \in {"VARCHAR", "TEXT"}
      [] rust = "Uuid" -> pgtype = "UUID"
      [] rust = "DateTime<Utc>" -> pgtype = "TIMESTAMPTZ"
      [] rust = "i64" -> pgtype = "INT8"
      [] rust = "i32" -> pgtype = "INT4"
      [] OTHER -> FALSE

\* CREATE TABLE users / posts / vocabulary: the column types.
ColumnType(table, col) ==
    CASE col = "id" -> IF table = "vocabulary" THEN "INT4" ELSE "UUID"
      [] col = "user_id" -> "UUID"
      [] col \in {"created_at", "updated_at"} -> "TIMESTAMPTZ"
      [] col \in {"content", "en_example", "ja_example"} -> "TEXT"
      [] OTHER -> "VARCHAR"

\* Table users without the UNIQUE constraint on email.
EmailTakenNever(tbl, email, id) == FALSE

\* email VARCHAR(255) UNIQUE NOT NULL: the rows of tbl other than `id` with this email.
EmailTaken(tbl, email, id) == \E r \in tbl : r.id # id /\ r.email = email

UniqueEmail == RawError("UNIQUE_VIOLATION", {"users_email_key", "email"})
UniqueKey == RawError("UNIQUE_VIOLATION", {"users_pkey"})
WrongType == RawError("none", {"serializing", "parameter"})
BadStatement == RawError("SYNTAX_ERROR", {"syntax"})

\* INSERT INTO users ... RETURNING: the error, the table after, the row returned.
InsertUser(tbl, row) ==
    IF \E r \in tbl : r.id = row.id
    THEN [err |-> UniqueKey, tbl |-> tbl, row |-> None]
    ELSE IF EmailTaken(tbl, row.email, row.id)
         THEN [err |-> UniqueEmail, tbl |-> tbl, row |-> None]
         ELSE [err |-> NoError, tbl |-> tbl \cup {row}, row |-> Some(row)]

\* One SET assignment applied to a row.
SetColumn(row, col, val) ==
    CASE col = "name" -> [row EXCEPT !.name = val]
      [] col = "email" -> [row EXCEPT !.email = val]
      [] col = "updated_at" -> [row EXCEPT !.updated_at = val]
      [] OTHER -> row

RECURSIVE ApplySet(_, _, _)
ApplySet(row, set, params) ==
    IF set = <<>> THEN row
    ELSE ApplySet(SetColumn(row, Head(set).col, params[Head(set).ph].v),
                  Tail(set), params)

\* The statement is one the server and the driver accept: every placeholder
\* $1..$n is bound, no column is assigned twice, each parameter has the type of
\* its column.
StatementAccepted(st) ==
    LET n == Len(st.params)
        used == {st.set[i].ph : i \in 1..Len(st.set)} \cup {st.where}
    IN  /\ st.set # <<>>
        /\ used = 1..n
        /\ \A i, j \in 1..Len(st.set) : st.set[i].col = st.set[j].col => i = j
        /\ \A i \in 1..Len(st.set) :
              TypeAccepts(st.params[st.set[i].ph].ty, ColumnType("users", st.set[i].col))
        /\ TypeAccepts(st.params[st.where].ty, ColumnType("users", "id"))

\* UPDATE users SET ... WHERE id = $k RETURNING ...
UpdateUser(tbl, st) ==
    IF ~StatementAccepted(st)
    THEN [err |-> IF st.set # <<>> /\ {st.set[i].ph : i \in 1..Len(st.set)}
                        \cup {st.where} = 1..Len(st.params)
                     THEN WrongType ELSE BadStatement,
          tbl |-> tbl, row |-> None]
    ELSE LET hit == {r \in tbl : r.id = st.params[st.where].v}
         IN  IF hit = {} THEN [err |-> NoError, tbl |-> tbl, row |-> None]
             ELSE LET old == CHOOSE r \in hit : TRUE
                      new == ApplySet(old, st.set, st.params)
                  IN  IF EmailTaken(tbl, new.email, old.id)
                      THEN [err |-> UniqueEmail, tbl |-> tbl, row |-> None]
                      ELSE [err |-> NoError, tbl |-> (tbl \ {old}) \cup {new},
                            row |-> Some(new)]

\* DELETE FROM users WHERE id = $1 without the cascade to posts.
DeletePostsOfNothing(ps, id) == ps

\* user_id UUID NOT NULL REFERENCES users(id) ON DELETE CASCADE
DeletePostsOf(ps, id) == {p \in ps : p.user_id # id}

\* DELETE FROM users WHERE id = $1: rows affected, users after, posts after.
\* A delete_user that takes the statement's success for a deleted row.
DeleteUserAlwaysOne(tbl, ps, id) ==
    LET hit == {r \in tbl : r.id = id}
    IN  [affected |-> 1,
         tbl |-> tbl \ hit,
         posts |-> IF hit = {} THEN ps ELSE DeletePostsOf(ps, id)]

DeleteUser(tbl, ps, id) ==
    LET hit == {r \in tbl : r.id = id}
    IN  [affected |-> Cardinality(hit),
         tbl |-> tbl \ hit,
         posts |-> IF hit = {} THEN ps ELSE DeletePostsOf(ps, id)]

-----------------------------------------------------------------------------
(* Posts and vocabulary: src/src/models/post.rs, src/src/models/vocabulary.rs *)

\* A string that Uuid::parse_str rejects; every other id is a well-formed UUID.
NotAUuid == 0
UuidParses(id) == id # NotAUuid

TitleMax == 200
ContentMax == 10000
WordMax == 200
ExampleMax == 1000

\* CreatePostRequest::validate (a user_id that is all whitespace is one that
\* does not parse).
CreatePostValidate(req) ==
    IF ~UuidParses(req.user_id) THEN "User ID must be a valid UUID"
    ELSE IF trim(req.title) = <<>> THEN "Title cannot be empty"
    ELSE IF Len(req.title) > TitleMax THEN "Title cannot exceed 200 characters"
    ELSE IF req.content.some /\ Len(req.content.v) > ContentMax
         THEN "Content cannot exceed 10000 characters"
    ELSE Valid

\* .map(|c| c.trim().to_string()).filter(|c| !c.is_empty())
\* Optional text that is trimmed and kept when nothing is left of it.
NormalizeOptionalKeepEmpty(o) ==
    IF o.some THEN Some(trim(o.v)) ELSE None

NormalizeOptional(o) ==
    IF o.some /\ trim(o.v) # <<>> THEN Some(trim(o.v)) ELSE None

\* CreatePostRequest::into_post with Post::new, id and clock supplied.
into_post(req, id, t) ==
    [id |-> id, user_id |-> req.user_id, title |-> trim(req.title),
     content |-> NormalizeOptional(req.content), created_at |-> t, updated_at |-> t]

\* The Rust types of struct Post, in the order create_post binds them.
PostFieldTypes ==
    <<[col |-> "id", ty |-> "String"], [col |-> "user_id", ty |-> "String"],
      [col |-> "title", ty |-> "String"], [col |-> "content", ty |-> "String"],
      [col |-> "created_at", ty |-> "i64"], [col |-> "updated_at", ty |-> "i64"]>>

\* Every field of Post converts to / from its column of table posts.
PostTypesAccepted ==
    \A i \in 1..Len(PostFieldTypes) :
        TypeAccepts(PostFieldTypes[i].ty, ColumnType("posts", PostFieldTypes[i].col))

\* INSERT INTO posts ... RETURNING, bound from a Post.
InsertPost(ps, us, row) ==
    IF ~PostTypesAccepted
    THEN [err |-> WrongType, tbl |-> ps, row |-> None]
    ELSE IF \E r \in ps : r.id = row.id
         THEN [err |-> UniqueKey, tbl |-> ps, row |-> None]
         ELSE IF ~\E u \in us : u.id = row.user_id
              THEN [err |-> RawError("FOREIGN_KEY_VIOLATION", {"posts_user_id_fkey"}),
                    tbl |-> ps, row |-> None]
              ELSE [err |-> NoError, tbl |-> ps \cup {row}, row |-> Some(row)]

\* CreateVocabularyRequest::validate
CreateVocabularyValidate(req) ==
    IF trim(req.en_word) = <<>> THEN "English word cannot be empty"
    ELSE IF Len(req.en_word) > WordMax THEN "English word cannot exceed 200 characters"
    ELSE IF trim(req.ja_word) = <<>> THEN "Japanese word cannot be empty"
    ELSE IF Len(req.ja_word) > WordMax THEN "Japanese word cannot exceed 200 characters"
    ELSE IF req.en_example.some /\ Len(req.en_example.v) > ExampleMax
         THEN "English example cannot exceed 1000 characters"
    ELSE IF req.ja_example.some /\ Len(req.ja_example.v) > ExampleMax
         THEN "Japanese example cannot exceed 1000 characters"
    ELSE Valid

\* The row INSERT INTO vocabulary ... VALUES ($1, $2, $3, $4, NOW(), NOW()) stores.
VocabularyRow(id, en, ja, enx, jax, t) ==
    [id |-> id, en_word |-> en, ja_word |-> ja, en_example |-> enx,
     ja_example |-> jax, created_at |-> t, updated_at |-> t]

\* seed_data of seed_vocabulary, each text kept as one token.
SeedData ==
    <<[en |-> <<"apple">>, ja |-> <<"ringo">>],
      [en |-> <<"book">>, ja |-> <<"hon">>],
      [en |-> <<"computer">>, ja |-> <<"konpyuta">>],
      [en |-> <<"study">>, ja |-> <<"benkyo">>],
      [en |-> <<"friend">>, ja |-> <<"tomodachi">>]>>

SeedRow(i, id, t) ==
    VocabularyRow(id, SeedData[i].en, SeedData[i].ja,
                  Some(<<"example">>), Some(<<"rei">>), t)

\* The values of a set of clock readings, latest first.
RECURSIVE SortDesc(_)
SortDesc(stamps) ==
    IF stamps = {} THEN <<>>
    ELSE LET latest == CHOOSE x \in stamps : \A y \in stamps : y <= x
         IN  <<latest>> \o SortDesc(stamps \ {latest})

\* ORDER BY created_at DESC: the rows as the server returns them, latest first.
\* Rows of equal created_at come in an order the server chooses, so the result
\* is the sequence of the groups of rows that share a created_at.
OrderedDesc(tbl) ==
    LET stamps == SortDesc({r.created_at : r \in tbl})
    IN  [i \in 1..Len(stamps) |-> {r \in tbl : r.created_at = stamps[i]}]

-----------------------------------------------------------------------------
(* The connection pool: Database::create_pool, Database::get_connection *)

\* DATABASE_MAX_CONNECTIONS of the configuration under check.
MaxConnections == 2

\* A pool one connection larger than configured.
PoolMaxSizeOffByOne == MaxConnections + 1

\* pg_config.pool = Some(PoolConfig::new(config.max_connections as usize)):
\* the size is the only setting create_pool passes on; PoolConfig::new leaves
\* every timeout of the pool unset, and config.connection_timeout is not read.
PoolMaxSize == MaxConnections

\* DATABASE_CONNECTION_TIMEOUT of the configuration under check, in seconds.
ConnectionTimeoutSecs == 10

\* TimeoutLayer::new(Duration::from_secs(30)) around every request handler.
RequestTimeoutSecs == 30

\* Seconds the clock advances in one Tick.
TickSecs == 10

Borrowed == Cardinality({t \in Tasks : conn[t]})

Elapsed(t) == (now - reqStart[t]) * TickSecs

-----------------------------------------------------------------------------
(* The configuration and the pool built from it: src/src/config.rs, create_pool *)

\* What DATABASE_URL begins with: the two schemes of PostgreSQL, two schemes
\* of a file-resident store, and no scheme at all (a bare path).
RemoteSchemes == {"postgresql://", "postgres://"}
LocalSchemes == {"file:", "sqlite://", ""}
Schemes == RemoteSchemes \cup LocalSchemes

\* Values of sslmode= in the URL, or of DATABASE_SSL_MODE.
SslStrings ==
    {"disable", "allow", "prefer", "require", "verify-ca", "verify-full",
     "Disable", "tls", ""}

\* DATABASE_URL: scheme, host, and the sslmode= parameter when there is one;
\* username, password and database name are present.
Url(scheme, host, sslmode) == [scheme |-> scheme, host |-> host, sslmode |-> sslmode]

\* The environment of the process.
Env(url, host, ssl_mode, max_connections) ==
    [url |-> url, host |-> host, ssl_mode |-> ssl_mode,
     max_connections |-> max_connections]

DatabaseConfig(host, ssl_mode, max_connections) ==
    [host |-> host, ssl_mode |-> ssl_mode, max_connections |-> max_connections,
     connection_timeout |-> ConnectionTimeoutSecs]

NoConfig == DatabaseConfig("", "", 0)

ConfigOk(config) == [ok |-> TRUE, config |-> config, err |-> ""]
ConfigErr(msg) == [ok |-> FALSE, config |-> NoConfig, err |-> msg]

\* DatabaseConfig::from_connection_string: the prefix test, then the fields
\* split out of the rest; sslmode is the text after "sslmode=", "require"
\* when the parameter is absent.
from_connection_string(url, env) ==
    IF url.scheme \notin {"postgresql://", "postgres://"}
    THEN ConfigErr("DATABASE_URL must start with 'postgresql://' or 'postgres://'")
    ELSE ConfigOk(DatabaseConfig(url.host,
                                 IF url.sslmode.some THEN url.sslmode.v ELSE "require",
                                 env.max_connections))

\* DatabaseConfig::from_env: DATABASE_URL when set, the single variables otherwise.
from_env(env) ==
    IF env.url.some
    THEN from_connection_string(env.url.v, env)
    ELSE ConfigOk(DatabaseConfig(IF env.host.some THEN env.host.v ELSE "localhost",
                                 IF env.ssl_mode.some THEN env.ssl_mode.v ELSE "require",
                                 env.max_connections))

\* The values DatabaseConfig::validate lets through.
ValidSslModes == {"disable", "allow", "prefer", "require", "verify-ca", "verify-full"}

\* DatabaseConfig::validate: the first check that fails.
ValidateConfig(config) ==
    IF config.host = "" THEN ConfigErr("Database host cannot be empty")
    ELSE IF config.ssl_mode \notin ValidSslModes THEN ConfigErr("Invalid SSL mode")
    ELSE IF config.max_connections = 0
         THEN ConfigErr("Max connections must be greater than 0")
    ELSE IF config.connection_timeout = 0
         THEN ConfigErr("Connection timeout must be greater than 0")
    ELSE ConfigOk(config)

\* deadpool_postgres::SslMode, weakest first.
SslModes == <<"Disable", "Prefer", "Require">>
Strength(mode) == CHOOSE i \in 1..Len(SslModes) : SslModes[i] = mode

PgConfig(ssl_mode, warned, max_size) ==
    [ssl_mode |-> ssl_mode, warned |-> warned, max_size |-> max_size]

NoPgConfig == PgConfig("none", FALSE, 0)

\* The `_` arm falls back to libpq's own default, prefer.
SslModeDefaultPrefer(ssl_mode) ==
    CASE ssl_mode = "disable" -> "Disable"
      [] ssl_mode = "require" -> "Require"
      [] OTHER -> "Prefer"

\* The match of create_pool on config.ssl_mode.
SslModeOf(ssl_mode) ==
    CASE ssl_mode = "disable" -> "Disable"
      [] ssl_mode = "prefer" -> "Prefer"
      [] ssl_mode = "require" -> "Require"
      [] OTHER -> "Require"

\* warn!("Unknown SSL mode '{}', defaulting to 'require'") in the `_` arm.
WarnsUnknown(ssl_mode) == ssl_mode \notin {"disable", "prefer", "require"}

\* Database::create_pool: the deadpool Config it hands to create_pool.
create_pool(config) ==
    PgConfig(SslModeOf(config.ssl_mode), WarnsUnknown(config.ssl_mode),
             config.max_connections)

NoSetup == [env |-> Env(None, None, None, 0), step |-> "none", config |-> NoConfig,
            err |-> "", pg |-> NoPgConfig]

-----------------------------------------------------------------------------
(* Operations of Database, as called *)

Op(name, id, req) == [name |-> name, id |-> id, req |-> req]
\* An operation that takes no request object.
NoReq == [none |-> TRUE]
NoOp == Op("none", 0, NoReq)

InvalidId(what) ==
    IF what = "post" THEN "Invalid post ID format" ELSE "Invalid user ID format"

\* What an operation checks before it borrows a connection: the message of the
\* ApiError::Validation it returns, or Valid.
PreCheck(o) ==
    CASE o.name = "create_user" -> CreateUserValidate(o.req)
      [] o.name = "update_user" ->
            IF UpdateUserValidate(o.req) # Valid THEN UpdateUserValidate(o.req)
            ELSE IF ~UuidParses(o.id) THEN InvalidId("user") ELSE Valid
      [] o.name \in {"get_user_by_id", "delete_user", "get_posts_by_user_id"} ->
            IF ~UuidParses(o.id) THEN InvalidId("user") ELSE Valid
      [] o.name = "get_post_by_id" ->
            IF ~UuidParses(o.id) THEN InvalidId("post") ELSE Valid
      [] o.name = "create_post" -> CreatePostValidate(o.req)
      [] o.name = "create_vocabulary" -> CreateVocabularyValidate(o.req)
      [] OTHER -> Valid

\* The operations that call Uuid::new_v4() once their request is valid.
DrawsUuid(o) == o.name \in {"create_user", "create_post"} /\ PreCheck(o) = Valid

\* What a create operation builds before it awaits the connection:
\* request.into_user() / request.into_post() read the clock and draw the id.
StmtAtCall(o) ==
    CASE o.name = "create_user" ->
            [sql |-> "INSERT users", row |-> into_user(o.req, nextUuid + 1, now)]
      [] o.name = "create_post" ->
            [sql |-> "INSERT posts", row |-> into_post(o.req, nextUuid + 1, now)]
      [] OTHER -> NoStmt

\* What an operation builds once it holds the connection.
StmtAtAcquire(t) ==
    IF op[t].name = "update_user"
    THEN BuildUpdateUser(get_normalized_name(op[t].req),
                         get_normalized_email(op[t].req), now, op[t].id)
    ELSE stmt[t]

\* An operation is called: validation, then the await of get_connection().
Call(t, o) ==
    /\ mainPc = "serving"
    /\ pc[t] = "idle"
    /\ DrawsUuid(o) => nextUuid < MaxUuid
    /\ o.name = "create_vocabulary" => vocabSeq < MaxVocab
    /\ op' = [op EXCEPT ![t] = o]
    /\ stmts' = [stmts EXCEPT ![t] = 0]
    /\ failed' = [failed EXCEPT ![t] = "none"]
    /\ IF PreCheck(o) # Valid
       THEN /\ res' = [res EXCEPT ![t] = Err(Api("Validation", PreCheck(o)))]
            /\ UNCHANGED <<pc, stmt, nextUuid, reqStart>>
       ELSE /\ res' = [res EXCEPT ![t] = NoResult]
            /\ pc' = [pc EXCEPT ![t] = "acquire"]
            /\ stmt' = [stmt EXCEPT ![t] = StmtAtCall(o)]
            /\ nextUuid' = IF DrawsUuid(o) THEN nextUuid + 1 ELSE nextUuid
            /\ reqStart' = [reqStart EXCEPT ![t] = now]
    /\ UNCHANGED <<mainPc, healthOk, migrated, early, users, posts, vocabulary,
                   vocabSeq, now, conn, seedIdx, built, schema, mapped,
                   setup>>

\* get_all_posts parses its filter only after it has borrowed the connection.
FilterRejected(o) ==
    o.name = "get_all_posts" /\ o.req.some /\ ~UuidParses(o.req.v)

\* The statement of the operation is one that gets sent.
SendsStatement(o) == o.name # "seed_vocabulary" /\ ~FilterRejected(o)

\* self.pool.get().await returns a connection.
Acquire(t) ==
    /\ pc[t] = "acquire"
    /\ Borrowed < PoolMaxSize
    /\ conn' = [conn EXCEPT ![t] = TRUE]
    /\ pc' = [pc EXCEPT ![t] = "exec"]
    /\ stmt' = [stmt EXCEPT ![t] = StmtAtAcquire(t)]
    /\ UNCHANGED <<res, reqStart>>
    /\ UNCHANGED <<mainPc, healthOk, migrated, early, users, posts, vocabulary,
                   vocabSeq, nextUuid, now, op, stmts, seedIdx, built, schema, mapped, failed,
                   setup>>

\* self.pool.get().await fails: the pool could not open a connection.
AcquireFail(t) ==
    /\ pc[t] = "acquire"
    /\ Borrowed < PoolMaxSize
    /\ res' = [res EXCEPT ![t] = Err(FromPoolError("Backend"))]
    /\ pc' = [pc EXCEPT ![t] = "idle"]
    /\ failed' = [failed EXCEPT ![t] = "borrow"]
    /\ stmt' = [stmt EXCEPT ![t] = NoStmt]
    /\ reqStart' = [reqStart EXCEPT ![t] = 0]
    /\ UNCHANGED <<mainPc, healthOk, migrated, early, users, posts, vocabulary,
                   vocabSeq, nextUuid, now, op, conn, stmts, seedIdx, built, schema, mapped,
                   setup>>

-----------------------------------------------------------------------------
(* The single statement of each operation, and what the operation returns *)

NotFound(what) == Err(Api("NotFound", what))

\* A handler task that panicked (Row::get on a column its Rust type rejects).
Panicked == Result("Panic", "error retrieving column", None)

Outcome(us, ps, vs, seq, r) ==
    [users |-> us, posts |-> ps, vocabulary |-> vs, vocabSeq |-> seq, res |-> r]

Unchanged(r) == Outcome(users, posts, vocabulary, vocabSeq, r)

\* .map_err(ApiError::from)? on the statement, then the row as the entity.
Returned(r) ==
    IF r.err # NoError THEN Err(FromPostgresError(r.err)) ELSE Ok(r.row)

\* The posts a read maps with Row::get into struct Post.
ReadPosts(rows) ==
    IF rows = {} THEN {Ok(Some(<<>>))}
    ELSE IF ~PostTypesAccepted THEN {Panicked}
    ELSE {Ok(Some(OrderedDesc(rows)))}

\* The outcomes of the statement task t has in flight: the tables after it and
\* the result of the operation.
Outcomes(t) ==
    LET o == op[t]
    IN  CASE o.name = "create_user" ->
                LET r == InsertUser(users, stmt[t].row)
                IN  {Outcome(r.tbl, posts, vocabulary, vocabSeq, Returned(r))}
          [] o.name = "get_user_by_id" ->
                LET hit == {u \in users : u.id = o.id}
                IN  {Unchanged(IF hit = {} THEN NotFound("User with id {} not found")
                               ELSE Ok(Some(CHOOSE u \in hit : TRUE)))}
          [] o.name = "get_all_users" ->
                {Unchanged(Ok(Some(OrderedDesc(users))))}
          [] o.name = "update_user" ->
                LET r == UpdateUser(users, stmt[t])
                IN  {Outcome(r.tbl, posts, vocabulary, vocabSeq,
                             IF r.err = NoError /\ ~r.row.some
                             THEN NotFound("User with id {} not found")
                             ELSE Returned(r))}
          [] o.name = "delete_user" ->
                LET r == DeleteUser(users, posts, o.id)
                IN  {Outcome(r.tbl, r.posts, vocabulary, vocabSeq,
                             IF r.affected = 0
                             THEN NotFound("User with id {} not found")
                             ELSE Ok(None))}
          [] o.name = "create_post" ->
                LET r == InsertPost(posts, users, stmt[t].row)
                IN  {Outcome(users, r.tbl, vocabulary, vocabSeq, Returned(r))}
          [] o.name = "get_post_by_id" ->
                LET hit == {q \in posts : q.id = o.id}
                IN  {Unchanged(IF hit = {} THEN NotFound("Post with id {} not found")
                               ELSE IF ~PostTypesAccepted THEN Panicked
                               ELSE Ok(Some(CHOOSE q \in hit : TRUE)))}
          [] o.name = "get_all_posts" ->
                {Unchanged(r) : r \in ReadPosts(IF o.req.some
                                                THEN {q \in posts : q.user_id = o.req.v}
                                                ELSE posts)}
          [] o.name = "get_posts_by_user_id" ->
                {Unchanged(r) : r \in ReadPosts({q \in posts : q.user_id = o.id})}
          [] o.name = "create_vocabulary" ->
                LET row == VocabularyRow(vocabSeq + 1, trim(o.req.en_word),
                                         trim(o.req.ja_word),
                                         NormalizeOptional(o.req.en_example),
                                         NormalizeOptional(o.req.ja_example), now)
                IN  {Outcome(users, posts, vocabulary \cup {row}, vocabSeq + 1,
                             Ok(Some(row)))}
          [] o.name = "get_vocabulary_by_id" ->
                LET hit == {v \in vocabulary : v.id = o.id}
                IN  {Unchanged(IF hit = {}
                               THEN NotFound("Vocabulary entry with id {} not found")
                               ELSE Ok(Some(CHOOSE v \in hit : TRUE)))}
          [] o.name = "get_all_vocabulary" ->
                {Unchanged(Ok(Some(OrderedDesc(vocabulary))))}
          [] o.name = "get_random_vocabulary" ->
                IF vocabulary = {}
                THEN {Unchanged(NotFound("No vocabulary entries found"))}
                ELSE {Unchanged(Ok(Some(v))) : v \in vocabulary}
          [] OTHER -> {}

\* The task returns and keeps the connection it holds.
FinishKeepingConnection(t, r) ==
    /\ res' = [res EXCEPT ![t] = r]
    /\ pc' = [pc EXCEPT ![t] = "idle"]
    /\ conn' = conn
    /\ stmt' = [stmt EXCEPT ![t] = NoStmt]
    /\ reqStart' = [reqStart EXCEPT ![t] = 0]

\* The task returns: the connection it holds is dropped back into the pool.
Finish(t, r) ==
    /\ res' = [res EXCEPT ![t] = r]
    /\ pc' = [pc EXCEPT ![t] = "idle"]
    /\ conn' = [conn EXCEPT ![t] = FALSE]
    /\ stmt' = [stmt EXCEPT ![t] = NoStmt]
    /\ reqStart' = [reqStart EXCEPT ![t] = 0]

\* The store answers the one statement of an operation other than seed_vocabulary.
Exec(t) ==
    /\ pc[t] = "exec"
    /\ SendsStatement(op[t])
    /\ \E out \in Outcomes(t) :
          /\ users' = out.users
          /\ posts' = out.posts
          /\ vocabulary' = out.vocabulary
          /\ vocabSeq' = out.vocabSeq
          /\ Finish(t, out.res)
    /\ stmts' = [stmts EXCEPT ![t] = @ + 1]
    /\ early' = (early \/ ~migrated)
    /\ UNCHANGED <<mainPc, healthOk, migrated, nextUuid, now, op, seedIdx, built, schema, mapped, failed,
                   setup>>

\* get_all_posts with a user_id that Uuid::parse_str rejects: the `?` returns the
\* Validation error and drops the connection; no statement was sent.
RejectFilter(t) ==
    /\ pc[t] = "exec"
    /\ FilterRejected(op[t])
    /\ Finish(t, Err(Api("Validation", InvalidId("user"))))
    /\ UNCHANGED <<mainPc, healthOk, migrated, early, users, posts, vocabulary,
                   vocabSeq, nextUuid, now, op, stmts, seedIdx, built, schema, mapped, failed,
                   setup>>

\* A seed_vocabulary that inserts whatever the table holds.
SkipSeedNever(count) == FALSE

\* if count > 0 { ...; return Ok(()); }
SkipSeed(count) == count > 0

\* seed_vocabulary: SELECT COUNT(*) FROM vocabulary, and the early return.
SeedCount(t) ==
    /\ pc[t] = "exec"
    /\ op[t].name = "seed_vocabulary"
    /\ IF SkipSeed(Cardinality(vocabulary))
       THEN /\ Finish(t, Ok(None))
            /\ UNCHANGED seedIdx
       ELSE /\ pc' = [pc EXCEPT ![t] = "seed_insert"]
            /\ seedIdx' = [seedIdx EXCEPT ![t] = 1]
            /\ UNCHANGED <<res, conn, stmt, reqStart>>
    /\ stmts' = [stmts EXCEPT ![t] = @ + 1]
    /\ early' = (early \/ ~migrated)
    /\ UNCHANGED <<mainPc, healthOk, migrated, users, posts, vocabulary, vocabSeq,
                   nextUuid, now, op, built, schema, mapped, failed, setup>>

\* seed_vocabulary: one INSERT of the loop over seed_data, on the same connection.
SeedInsert(t) ==
    /\ pc[t] = "seed_insert"
    /\ vocabulary' = vocabulary \cup {SeedRow(seedIdx[t], vocabSeq + 1, now)}
    /\ vocabSeq' = vocabSeq + 1
    /\ IF seedIdx[t] = Len(SeedData)
       THEN /\ Finish(t, Ok(None))
            /\ seedIdx' = [seedIdx EXCEPT ![t] = 0]
       ELSE /\ seedIdx' = [seedIdx EXCEPT ![t] = @ + 1]
            /\ UNCHANGED <<pc, res, conn, stmt, reqStart>>
    /\ stmts' = [stmts EXCEPT ![t] = @ + 1]
    /\ early' = (early \/ ~migrated)
    /\ UNCHANGED <<mainPc, healthOk, migrated, users, posts, nextUuid, now, op, built, schema, mapped, failed,
                   setup>>

\* The error path of a statement holds on to the connection.
ExecFailKeepingConnection(t) ==
    /\ pc[t] \in {"exec", "seed_insert"}
    /\ ~FilterRejected(op[t])
    /\ \E e \in TransportErrors : FinishKeepingConnection(t, Err(FromPostgresError(e)))
    /\ seedIdx' = [seedIdx EXCEPT ![t] = 0]
    /\ failed' = [failed EXCEPT ![t] = "statement"]
    /\ stmts' = [stmts EXCEPT ![t] = @ + 1]
    /\ UNCHANGED <<mainPc, healthOk, migrated, early, users, posts, vocabulary,
                   vocabSeq, nextUuid, now, op, built, schema, mapped, setup>>

\* A statement fails on its way to the store: .map_err(ApiError::from)? returns
\* the classified error and the tables stay as they are.
ExecFail(t) ==
    /\ pc[t] \in {"exec", "seed_insert"}
    /\ ~FilterRejected(op[t])
    /\ \E e \in TransportErrors : Finish(t, Err(FromPostgresError(e)))
    /\ seedIdx' = [seedIdx EXCEPT ![t] = 0]
    /\ failed' = [failed EXCEPT ![t] = "statement"]
    /\ stmts' = [stmts EXCEPT ![t] = @ + 1]
    /\ UNCHANGED <<mainPc, healthOk, migrated, early, users, posts, vocabulary,
                   vocabSeq, nextUuid, now, op, built, schema, mapped, setup>>

\* The request timeout of the middleware stack drops the handler's future at
\* the await it is suspended in; a connection it holds goes back to the pool.
RequestTimeout(t) ==
    /\ pc[t] # "idle"
    /\ Elapsed(t) >= RequestTimeoutSecs
    /\ Finish(t, Result("RequestTimeout", "", None))
    /\ seedIdx' = [seedIdx EXCEPT ![t] = 0]
    /\ UNCHANGED <<mainPc, healthOk, migrated, early, users, posts, vocabulary,
                   vocabSeq, nextUuid, now, op, stmts, built, schema, mapped, failed,
                   setup>>

\* Time passes, up to the horizon `last`.  A request is not left pending past
\* the timeout of the middleware, and a caller of get_connection waits only
\* while every connection of the pool is borrowed (a free one is handed out at
\* once); a statement in flight takes as long as the store takes.
Tick(last) ==
    /\ now < last
    /\ \A t \in Tasks : pc[t] # "idle" => Elapsed(t) < RequestTimeoutSecs
    /\ \A t \in Tasks : pc[t] = "acquire" => Borrowed >= PoolMaxSize
    /\ now' = now + 1
    /\ UNCHANGED <<mainPc, healthOk, migrated, early, users, posts, vocabulary,
                   vocabSeq, nextUuid, pc, op, res, conn, stmt, stmts, reqStart,
                   seedIdx, built, schema, mapped, failed, setup>>

-----------------------------------------------------------------------------
(* The schema: the statements of Database::migrate *)

\* An object of the schema: an extension, a table or an index.  `needs` are the
\* objects its definition refers to, `cascade` a foreign key ON DELETE CASCADE.
Object(kind, name, needs, cascade) ==
    [kind |-> kind, name |-> name, needs |-> needs, cascade |-> cascade]

\* The objects the statements of migrate define, in the order they are sent.
Migrations ==
    <<Object("extension", "uuid-ossp", {}, ""),
      Object("table", "users", {"uuid-ossp"}, ""),
      Object("index", "idx_users_email", {"users"}, ""),
      Object("table", "posts", {"uuid-ossp", "users"}, "users"),
      Object("index", "idx_posts_user_id", {"posts"}, ""),
      Object("index", "idx_posts_created_at", {"posts"}, ""),
      Object("table", "vocabulary", {}, ""),
      Object("index", "idx_vocabulary_en_word", {"vocabulary"}, ""),
      Object("index", "idx_vocabulary_ja_word", {"vocabulary"}, ""),
      Object("index", "idx_vocabulary_created_at", {"vocabulary"}, "")>>

\* The schema after every statement of migrate has run.
Migrated == {Migrations[i] : i \in 1..Len(Migrations)}

DuplicateObject == RawError("DUPLICATE_TABLE", {"already", "exists"})
UndefinedObject == RawError("UNDEFINED_TABLE", {"does", "not", "exist"})

\* CREATE ... without IF NOT EXISTS: an object of that name is an error.
CreateStrict(s, obj) ==
    IF \E o \in s : o.name = obj.name
    THEN [err |-> DuplicateObject, schema |-> s]
    ELSE IF ~(obj.needs \subseteq {o.name : o \in s})
         THEN [err |-> UndefinedObject, schema |-> s]
         ELSE [err |-> NoError, schema |-> s \cup {obj}]

\* CREATE ... IF NOT EXISTS: an object of that name stays as it is, whatever its
\* definition, and the statement succeeds.
CreateIfNotExists(s, obj) ==
    IF \E o \in s : o.name = obj.name
    THEN [err |-> NoError, schema |-> s]
    ELSE IF ~(obj.needs \subseteq {o.name : o \in s})
         THEN [err |-> UndefinedObject, schema |-> s]
         ELSE [err |-> NoError, schema |-> s \cup {obj}]

\* The statements of migrate from the k-th on, each followed by `?`; the
\* connection fails at statement `lost` (0: at none).
RECURSIVE RunMigrations(_, _, _)
RunMigrations(s, k, lost) ==
    IF k > Len(Migrations) THEN [err |-> NoError, schema |-> s]
    ELSE IF k = lost THEN [err |-> RawError("none", {"connection", "closed"}),
                           schema |-> s]
    ELSE LET r == CreateIfNotExists(s, Migrations[k])
         IN  IF r.err # NoError THEN r ELSE RunMigrations(r.schema, k + 1, lost)

-----------------------------------------------------------------------------
(* Startup: main() of src/src/main.rs *)

\* main() logging a failed migration and going on to seed (no exit).
OnMigrateErrorContinue == "seed"

\* if let Err(e) = database.migrate().await { ...; std::process::exit(1); }
OnMigrateError == "exited"

\* One step of main() before the seed: it succeeds and main moves on, or it
\* fails and main calls std::process::exit(1).
\* Database::new: create_pool
MainCreatePool ==
    /\ mainPc = "new"
    /\ \E ok \in BOOLEAN : mainPc' = IF ok THEN "test_connection" ELSE "exited"
    /\ UNCHANGED <<healthOk, migrated, early, users, posts, vocabulary, vocabSeq,
                   nextUuid, now, pc, op, res, conn, stmt, stmts, reqStart,
                   seedIdx, built, schema, mapped, failed, setup>>

\* Database::new: test_connection
MainTestConnection ==
    /\ mainPc = "test_connection"
    /\ \E ok \in BOOLEAN : mainPc' = IF ok THEN "health_check" ELSE "exited"
    /\ UNCHANGED <<healthOk, migrated, early, users, posts, vocabulary, vocabSeq,
                   nextUuid, now, pc, op, res, conn, stmt, stmts, reqStart,
                   seedIdx, built, schema, mapped, failed, setup>>

\* database.health_check()
MainHealthCheck ==
    /\ mainPc = "health_check"
    /\ \E ok \in BOOLEAN :
          /\ mainPc' = IF ok THEN "migrate" ELSE "exited"
          /\ healthOk' = ok
    /\ UNCHANGED <<migrated, early, users, posts, vocabulary, vocabSeq,
                   nextUuid, now, pc, op, res, conn, stmt, stmts, reqStart,
                   seedIdx, built, schema, mapped, failed, setup>>

\* database.migrate(), the connection failing at one of the statements in
\* `losts` (0: every statement is answered).
Migrate(losts) ==
    /\ mainPc = "migrate"
    /\ \E lost \in losts :
          LET r == RunMigrations(schema, 1, lost)
          IN  /\ mainPc' = IF r.err = NoError THEN "seed" ELSE OnMigrateError
              /\ migrated' = (r.err = NoError)
              /\ schema' = r.schema
    /\ UNCHANGED <<healthOk, early, users, posts, vocabulary, vocabSeq,
                   nextUuid, now, pc, op, res, conn, stmt, stmts, reqStart,
                   seedIdx, built, mapped, failed, setup>>

\* database.migrate()
MainMigrate == Migrate(0..Len(Migrations))

\* The future of main() itself.
MainTask == 1

\* database.seed_vocabulary() is called and awaits its connection.
MainSeed ==
    /\ mainPc = "seed"
    /\ mainPc' = "seeding"
    /\ op' = [op EXCEPT ![MainTask] = Op("seed_vocabulary", 0, NoReq)]
    /\ pc' = [pc EXCEPT ![MainTask] = "acquire"]
    /\ res' = [res EXCEPT ![MainTask] = NoResult]
    /\ stmts' = [stmts EXCEPT ![MainTask] = 0]
    /\ failed' = [failed EXCEPT ![MainTask] = "none"]
    /\ UNCHANGED <<healthOk, migrated, early, users, posts, vocabulary, vocabSeq,
                   nextUuid, now, conn, stmt, reqStart, seedIdx, built, schema, mapped,
                   setup>>

\* database.seed_vocabulary() has returned.
MainSeedReturned ==
    /\ mainPc = "seeding"
    /\ pc[MainTask] = "idle"
    /\ mainPc' = IF res[MainTask].kind = "Ok" THEN "bind" ELSE "exited"
    /\ UNCHANGED <<healthOk, migrated, early, users, posts, vocabulary, vocabSeq,
                   nextUuid, now, pc, op, res, conn, stmt, stmts, reqStart,
                   seedIdx, built, schema, mapped, failed, setup>>

\* TcpListener::bind, then axum::serve accepts requests.
MainBind ==
    /\ mainPc = "bind"
    /\ \E ok \in BOOLEAN : mainPc' = IF ok THEN "serving" ELSE "exited"
    /\ UNCHANGED <<healthOk, migrated, early, users, posts, vocabulary, vocabSeq,
                   nextUuid, now, pc, op, res, conn, stmt, stmts, reqStart,
                   seedIdx, built, schema, mapped, failed, setup>>

Startup ==
    \/ MainCreatePool
    \/ MainTestConnection
    \/ MainHealthCheck
    \/ MainMigrate
    \/ MainSeed
    \/ MainSeedReturned
    \/ MainBind

-----------------------------------------------------------------------------
(* Inputs *)

NameN == <<"n">>
NamePaddedM == <<" ", "m">>
EmailJUpper == <<"J", "@", "x", ".", "c">>
EmailJ == <<"j", "@", "x", ".", "c">>
EmailK == <<"k", "@", "x", ".", "c">>
TitleT == <<"t">>

\* The first id Uuid::new_v4() hands out.
FirstId == 1

UserIds == 1..MaxUuid

CreateUserOps ==
    {Op("create_user", 0, [name |-> NameN, email |-> e]) : e \in {EmailJUpper, EmailJ}}

UpdateRequests ==
    {[name |-> None, email |-> None],
     [name |-> Some(NamePaddedM), email |-> None],
     [name |-> None, email |-> Some(EmailK)],
     [name |-> None, email |-> Some(EmailJUpper)]}

UpdateUserOps == {Op("update_user", FirstId, r) : r \in UpdateRequests}

DeleteUserOps == {Op("delete_user", id, NoReq) : id \in UserIds \cup {NotAUuid}}

CreatePostOps ==
    {Op("create_post", 0, [user_id |-> id, title |-> TitleT, content |-> None]) :
        id \in UserIds}

VocabularyRequest ==
    [en_word |-> <<"word">>, ja_word |-> <<"kotoba">>, en_example |-> None,
     ja_example |-> Some(<<" ">>)]

\* A caller of the user operations.
UserCall(t) ==
    \/ \E o \in CreateUserOps : Call(t, o)
    \/ \E o \in UpdateUserOps : Call(t, o)
    \/ Call(t, Op("delete_user", FirstId, NoReq))
    \/ Call(t, Op("get_user_by_id", FirstId, NoReq))

\* A caller of the operations that touch posts and their owners.
CascadeCall(t) ==
    \/ Call(t, Op("create_user", 0, [name |-> NameN, email |-> EmailJ]))
    \/ \E o \in DeleteUserOps : Call(t, o)
    \/ \E o \in CreatePostOps : Call(t, o)

\* A caller of any operation of Database, one request of each.
AnyCall(t) ==
    \/ Call(t, Op("create_user", 0, [name |-> NameN, email |-> EmailJ]))
    \/ Call(t, Op("get_user_by_id", FirstId, NoReq))
    \/ Call(t, Op("get_all_users", 0, NoReq))
    \/ Call(t, Op("update_user", FirstId, [name |-> Some(NamePaddedM), email |-> None]))
    \/ Call(t, Op("delete_user", FirstId, NoReq))
    \/ Call(t, Op("create_post", 0,
                  [user_id |-> FirstId, title |-> TitleT, content |-> None]))
    \/ Call(t, Op("get_post_by_id", FirstId, NoReq))
    \/ \E f \in {None, Some(FirstId), Some(NotAUuid)} : Call(t, Op("get_all_posts", 0, f))
    \/ Call(t, Op("get_posts_by_user_id", FirstId, NoReq))
    \/ Call(t, Op("create_vocabulary", 0, VocabularyRequest))
    \/ Call(t, Op("get_vocabulary_by_id", FirstId, NoReq))
    \/ Call(t, Op("get_all_vocabulary", 0, NoReq))
    \/ Call(t, Op("get_random_vocabulary", 0, NoReq))

\* A request handler that reads one vocabulary entry.
PoolCall(t) == Call(t, Op("get_vocabulary_by_id", FirstId, NoReq))

-----------------------------------------------------------------------------
(* Initial states *)

NoBuilt == [name |-> None, email |-> None, at |-> 0, id |-> FirstId, out |-> NoStmt,
            done |-> FALSE]

InitTasks ==
    /\ pc = [t \in Tasks |-> "idle"]
    /\ op = [t \in Tasks |-> NoOp]
    /\ res = [t \in Tasks |-> NoResult]
    /\ conn = [t \in Tasks |-> FALSE]
    /\ stmt = [t \in Tasks |-> NoStmt]
    /\ stmts = [t \in Tasks |-> 0]
    /\ reqStart = [t \in Tasks |-> 0]
    /\ seedIdx = [t \in Tasks |-> 0]
    /\ failed = [t \in Tasks |-> "none"]

\* The rows seed_vocabulary leaves when it runs at clock reading t.
Seeded(t) == {SeedRow(i, i, t) : i \in 1..Len(SeedData)}

\* Startup has completed: the pool is open, migrate and seed_vocabulary have
\* returned Ok, the server accepts requests.
InitServing ==
    /\ mainPc = "serving"
    /\ healthOk = TRUE
    /\ migrated = TRUE
    /\ schema = Migrated
    /\ early = FALSE
    /\ vocabulary = Seeded(0)
    /\ vocabSeq = Len(SeedData)
    /\ now = 0
    /\ InitTasks

\* The service on a store that migrate has just created.
Init ==
    /\ InitServing
    /\ users = {}
    /\ posts = {}
    /\ nextUuid = 0
    /\ built = NoBuilt
    /\ mapped = NoMapped
    /\ setup = NoSetup

Next ==
    \/ Tick(MaxStamp)
    \/ \E t \in DataTasks :
          \/ UserCall(t)
          \/ Acquire(t)
          \/ Exec(t)
          \/ ExecFail(t)

Spec == Init /\ [][Next]_vars

-----------------------------------------------------------------------------
(* The service on a store that holds posts *)

\* A store that an earlier deployment left behind: one user, and posts of that
\* user (this revision inserts none, see PostTypesAccepted).
LegacyOwner == FirstId
LegacyUsers ==
    {[id |-> LegacyOwner, name |-> NameN, email |-> EmailK, created_at |-> 0,
      updated_at |-> 0]}
LegacyPosts ==
    {[id |-> 100 + i, user_id |-> LegacyOwner, title |-> TitleT, content |-> None,
      created_at |-> 0, updated_at |-> 0] : i \in 1..2}

InitCascade ==
    /\ InitServing
    /\ users = LegacyUsers
    /\ posts = LegacyPosts
    /\ nextUuid = LegacyOwner
    /\ built = NoBuilt
    /\ mapped = NoMapped
    /\ setup = NoSetup

NextCascade ==
    \/ Tick(MaxStamp)
    \/ \E t \in DataTasks :
          \/ CascadeCall(t)
          \/ Acquire(t)
          \/ Exec(t)
          \/ ExecFail(t)

SpecCascade == InitCascade /\ [][NextCascade]_vars

-----------------------------------------------------------------------------
(* The process from its start *)

\* main() begins; the store is new, or an earlier run has migrated it and may
\* have left its vocabulary.
InitStartup ==
    /\ mainPc = "new"
    /\ healthOk = FALSE
    /\ migrated = FALSE
    /\ early = FALSE
    /\ users = {}
    /\ posts = {}
    /\ nextUuid = 0
    /\ \E seeded \in BOOLEAN :
          /\ vocabulary = IF seeded THEN Seeded(0) ELSE {}
          /\ vocabSeq = IF seeded THEN Len(SeedData) ELSE 0
          /\ schema \in IF seeded THEN {Migrated} ELSE {{}, Migrated}
    /\ now = 0
    /\ InitTasks
    /\ built = NoBuilt
    /\ mapped = NoMapped
    /\ setup = NoSetup

NextStartup ==
    \/ Startup
    \/ \E t \in DataTasks :
          \/ AnyCall(t)
          \/ Acquire(t)
          \/ Exec(t)
          \/ RejectFilter(t)
          \/ SeedCount(t)
          \/ SeedInsert(t)
          \/ ExecFail(t)

SpecStartup == InitStartup /\ [][NextStartup]_vars

-----------------------------------------------------------------------------
(* The pool under more request handlers than it has connections *)

NextPool ==
    \/ Tick(MaxClock)
    \/ \E t \in Tasks :
          \/ PoolCall(t)
          \/ Acquire(t)
          \/ AcquireFail(t)
          \/ Exec(t)
          \/ ExecFail(t)
          \/ RequestTimeout(t)

SpecPool == Init /\ [][NextPool]_vars

-----------------------------------------------------------------------------
(* The process run again and again on one store, every statement answered *)

\* The process has ended, by exit(1) or killed while no request was in flight,
\* and is started again: main() begins anew on the store as it is.
MainRestart ==
    /\ mainPc \in {"exited", "serving"}
    /\ \A t \in Tasks : pc[t] = "idle"
    /\ mainPc' = "new"
    /\ healthOk' = FALSE
    /\ migrated' = FALSE
    /\ early' = FALSE
    /\ pc' = [t \in Tasks |-> "idle"]
    /\ op' = [t \in Tasks |-> NoOp]
    /\ res' = [t \in Tasks |-> NoResult]
    /\ conn' = [t \in Tasks |-> FALSE]
    /\ stmt' = [t \in Tasks |-> NoStmt]
    /\ stmts' = [t \in Tasks |-> 0]
    /\ reqStart' = [t \in Tasks |-> 0]
    /\ seedIdx' = [t \in Tasks |-> 0]
    /\ failed' = [t \in Tasks |-> "none"]
    /\ UNCHANGED <<users, posts, vocabulary, vocabSeq, nextUuid, now, built, schema,
                   mapped, setup>>

\* A caller of the creates that leave rows for the next run.
RestartCall(t) ==
    \/ Call(t, Op("create_user", 0, [name |-> NameN, email |-> EmailJ]))
    \/ Call(t, Op("create_vocabulary", 0, VocabularyRequest))

NextRestart ==
    \/ MainCreatePool
    \/ MainTestConnection
    \/ MainHealthCheck
    \/ Migrate({0})
    \/ MainSeed
    \/ MainSeedReturned
    \/ MainBind
    \/ MainRestart
    \/ \E t \in DataTasks :
          \/ RestartCall(t)
          \/ Acquire(t)
          \/ Exec(t)
          \/ SeedCount(t)
          \/ SeedInsert(t)

SpecRestart == InitStartup /\ [][NextRestart]_vars

-----------------------------------------------------------------------------
(* The process with a pool and a connection that can fail at every await *)

\* A caller of operations of one statement each.
FaultCall(t) ==
    \/ Call(t, Op("create_user", 0, [name |-> NameN, email |-> EmailJ]))
    \/ Call(t, Op("update_user", FirstId, [name |-> Some(NamePaddedM), email |-> None]))
    \/ Call(t, Op("delete_user", FirstId, NoReq))
    \/ Call(t, Op("get_vocabulary_by_id", FirstId, NoReq))

NextFaults ==
    \/ Startup
    \/ \E t \in DataTasks :
          \/ FaultCall(t)
          \/ Acquire(t)
          \/ AcquireFail(t)
          \/ Exec(t)
          \/ SeedCount(t)
          \/ SeedInsert(t)
          \/ ExecFail(t)

SpecFaults == InitStartup /\ [][NextFaults]_vars

-----------------------------------------------------------------------------
(* The post operations on a store that holds posts, every statement answered *)

\* A caller of the operations on posts.
PostsCall(t) ==
    \/ \E o \in CreatePostOps : Call(t, o)
    \/ \E id \in {FirstId, 100 + FirstId} : Call(t, Op("get_post_by_id", id, NoReq))
    \/ \E f \in {None} \cup {Some(id) : id \in UserIds \cup {NotAUuid}} :
          Call(t, Op("get_all_posts", 0, f))
    \/ Call(t, Op("get_posts_by_user_id", FirstId, NoReq))
    \/ Call(t, Op("delete_user", FirstId, NoReq))

NextPosts ==
    \/ Tick(MaxStamp)
    \/ \E t \in DataTasks :
          \/ PostsCall(t)
          \/ Acquire(t)
          \/ Exec(t)
          \/ RejectFilter(t)

SpecPosts == InitCascade /\ [][NextPosts]_vars

-----------------------------------------------------------------------------
(* The statement builder of update_user on its own *)

BuilderNames == {None, Some(NameN), Some(NamePaddedM)}
BuilderEmails == {None, Some(EmailJUpper), Some(EmailK)}

InitBuilder ==
    /\ InitServing
    /\ users = {}
    /\ posts = {}
    /\ nextUuid = 0
    /\ \E n \in BuilderNames, e \in BuilderEmails, at \in 0..MaxClock, id \in UserIds :
          built = [name |-> n, email |-> e, at |-> at, id |-> id, out |-> NoStmt,
                   done |-> FALSE]
    /\ mapped = NoMapped
    /\ setup = NoSetup

\* update_user from get_normalized_name() to the format! of the statement.
RunBuilder ==
    /\ ~built.done
    /\ built' = [built EXCEPT
                    !.out = BuildUpdateUser(get_normalized_name(built),
                                            get_normalized_email(built),
                                            built.at, built.id),
                    !.done = TRUE]
    /\ UNCHANGED <<mainPc, healthOk, migrated, early, users, posts, vocabulary,
                   vocabSeq, nextUuid, now, pc, op, res, conn, stmt, stmts,
                   reqStart, seedIdx, schema, mapped, failed, setup>>

NextBuilder == RunBuilder

SpecBuilder == InitBuilder /\ [][NextBuilder]_vars

-----------------------------------------------------------------------------
(* The error conversions on their own *)

\* The SQLSTATEs the conversion names, others it does not name (a statement
\* cancelled by statement_timeout, a syntax error, a missing table), and "none"
\* for an error of the driver that carries no SQLSTATE.
ConnectionStates ==
    {"CONNECTION_EXCEPTION", "CONNECTION_DOES_NOT_EXIST", "CONNECTION_FAILURE"}
SqlStates ==
    {"UNIQUE_VIOLATION", "FOREIGN_KEY_VIOLATION", "NOT_NULL_VIOLATION",
     "CHECK_VIOLATION", "INVALID_TEXT_REPRESENTATION", "NUMERIC_VALUE_OUT_OF_RANGE",
     "STRING_DATA_LENGTH_MISMATCH", "INSUFFICIENT_PRIVILEGE", "QUERY_CANCELED",
     "SYNTAX_ERROR", "UNDEFINED_TABLE", "none"} \cup ConnectionStates

\* Words the text of a raw error may hold.
RawWords == {"email", "name", "connection", "timeout"}

RawErrors == {RawError(c, w) : c \in SqlStates, w \in SUBSET RawWords}

\* The variants of deadpool_postgres::PoolError.
PoolErrors == {"Timeout", "Closed", "NoRuntimeSpecified", "PostCreateHook", "Backend"}

InitErrors ==
    /\ InitServing
    /\ users = {}
    /\ posts = {}
    /\ nextUuid = 0
    /\ built = NoBuilt
    /\ \/ \E e \in RawErrors :
             mapped = [NoMapped EXCEPT !.src = "postgres", !.raw = e]
       \/ \E e \in PoolErrors :
             mapped = [NoMapped EXCEPT !.src = "pool", !.pool = e]
    /\ setup = NoSetup

\* .map_err(ApiError::from) on a statement, or the `?` of get_connection.
ConvertError ==
    /\ mapped.step = 0
    /\ mapped' = [mapped EXCEPT
                     !.api = IF mapped.src = "postgres"
                             THEN FromPostgresError(mapped.raw)
                             ELSE FromPoolError(mapped.pool),
                     !.step = 1]
    /\ UNCHANGED <<mainPc, healthOk, migrated, early, users, posts, vocabulary,
                   vocabSeq, nextUuid, now, pc, op, res, conn, stmt, stmts,
                   reqStart, seedIdx, built, schema, failed, setup>>

\* The handler returns the error: into_response builds the body.
Respond ==
    /\ mapped.step = 1
    /\ mapped' = [mapped EXCEPT !.body = IntoResponse(mapped.api), !.step = 2]
    /\ UNCHANGED <<mainPc, healthOk, migrated, early, users, posts, vocabulary,
                   vocabSeq, nextUuid, now, pc, op, res, conn, stmt, stmts,
                   reqStart, seedIdx, built, schema, failed, setup>>

NextErrors ==
    \/ ConvertError
    \/ Respond

SpecErrors == InitErrors /\ [][NextErrors]_vars

-----------------------------------------------------------------------------
(* The configuration loaded and the pool built, on their own *)

\* Values of DATABASE_MAX_CONNECTIONS.
PoolSizes == {0, MaxConnections}

\* The environments: DATABASE_URL set, or the single variables.
Envs ==
    {Env(Some(Url(s, h, m)), None, None, n) :
        s \in Schemes, h \in {"", "db"}, m \in {None} \cup {Some(x) : x \in SslStrings},
        n \in PoolSizes}
    \cup
    {Env(None, h, m, n) :
        h \in {None, Some(""), Some("db")},
        m \in {None} \cup {Some(x) : x \in SslStrings}, n \in PoolSizes}

InitConfig ==
    /\ InitServing
    /\ users = {}
    /\ posts = {}
    /\ nextUuid = 0
    /\ built = NoBuilt
    /\ mapped = NoMapped
    /\ \E e \in Envs : setup = [NoSetup EXCEPT !.env = e, !.step = "env"]

\* DatabaseConfig::from_env().
LoadConfig ==
    /\ setup.step = "env"
    /\ LET r == from_env(setup.env)
       IN  setup' = [setup EXCEPT !.step = IF r.ok THEN "loaded" ELSE "failed",
                                  !.config = r.config, !.err = r.err]
    /\ UNCHANGED <<mainPc, healthOk, migrated, early, users, posts, vocabulary,
                   vocabSeq, nextUuid, now, pc, op, res, conn, stmt, stmts,
                   reqStart, seedIdx, built, schema, mapped, failed>>

\* Config::validate_config, which Config::from_env runs on what it has loaded.
ValidateLoaded ==
    /\ setup.step = "loaded"
    /\ LET r == ValidateConfig(setup.config)
       IN  setup' = [setup EXCEPT !.step = IF r.ok THEN "validated" ELSE "failed",
                                  !.err = r.err]
    /\ UNCHANGED <<mainPc, healthOk, migrated, early, users, posts, vocabulary,
                   vocabSeq, nextUuid, now, pc, op, res, conn, stmt, stmts,
                   reqStart, seedIdx, built, schema, mapped, failed>>

\* Database::new(config): main passes the validated configuration, a caller
\* of the library any DatabaseConfig it has loaded.
CreatePool ==
    /\ setup.step \in {"loaded", "validated"}
    /\ setup' = [setup EXCEPT !.step = "pool", !.pg = create_pool(setup.config)]
    /\ UNCHANGED <<mainPc, healthOk, migrated, early, users, posts, vocabulary,
                   vocabSeq, nextUuid, now, pc, op, res, conn, stmt, stmts,
                   reqStart, seedIdx, built, schema, mapped, failed>>

NextConfig ==
    \/ LoadConfig
    \/ ValidateLoaded
    \/ CreatePool

SpecConfig == InitConfig /\ [][NextConfig]_vars

-----------------------------------------------------------------------------
(* Two instances of the service started together on one new store *)

\* Both instances have migrated the store and stand before seed_vocabulary;
\* mainPc is the position of the first, whose main runs as MainTask.
InitRace ==
    /\ mainPc = "seed"
    /\ healthOk = TRUE
    /\ migrated = TRUE
    /\ schema = Migrated
    /\ early = FALSE
    /\ users = {}
    /\ posts = {}
    /\ vocabulary = {}
    /\ vocabSeq = 0
    /\ nextUuid = 0
    /\ now = 0
    /\ InitTasks
    /\ built = NoBuilt
    /\ mapped = NoMapped
    /\ setup = NoSetup

OtherTask == 2

\* database.seed_vocabulary() in main of the second instance.
OtherSeed ==
    /\ pc[OtherTask] = "idle"
    /\ op[OtherTask].name = "none"
    /\ op' = [op EXCEPT ![OtherTask] = Op("seed_vocabulary", 0, NoReq)]
    /\ pc' = [pc EXCEPT ![OtherTask] = "acquire"]
    /\ res' = [res EXCEPT ![OtherTask] = NoResult]
    /\ stmts' = [stmts EXCEPT ![OtherTask] = 0]
    /\ failed' = [failed EXCEPT ![OtherTask] = "none"]
    /\ UNCHANGED <<mainPc, healthOk, migrated, early, users, posts, vocabulary,
                   vocabSeq, nextUuid, now, conn, stmt, reqStart, seedIdx, built,
                   schema, mapped, setup>>

NextRace ==
    \/ MainSeed
    \/ OtherSeed
    \/ MainSeedReturned
    \/ \E t \in DataTasks :
          \/ Acquire(t)
          \/ SeedCount(t)
          \/ SeedInsert(t)

SpecRace == InitRace /\ [][NextRace]_vars

-----------------------------------------------------------------------------
(* The create operations on requests with surrounding and blank text *)

PaddedNames == {NamePaddedM, <<" ", "m", " ", "o", " ">>}
PaddedTitles == {<<" ", "t", " ">>}
OptionalTexts == {None, Some(<<" ">>), Some(<<" ", "e", " ">>)}

NormalizeCall(t) ==
    \/ \E n \in PaddedNames :
          Call(t, Op("create_user", 0, [name |-> n, email |-> EmailJ]))
    \/ \E ti \in PaddedTitles, c \in OptionalTexts \cup {Some(<<>>)} :
          Call(t, Op("create_post", 0,
                     [user_id |-> FirstId, title |-> ti, content |-> c]))
    \/ \E en \in OptionalTexts, ja \in {None, Some(<<>>)} :
          Call(t, Op("create_vocabulary", 0,
                     [en_word |-> <<" ", "w", " ">>, ja_word |-> <<"k", " ">>,
                      en_example |-> en, ja_example |-> ja]))

NextNormalize ==
    \E t \in DataTasks :
       \/ NormalizeCall(t)
       \/ Acquire(t)
       \/ Exec(t)

SpecNormalize == Init /\ [][NextNormalize]_vars

-----------------------------------------------------------------------------
(* Properties *)

\* The columns update_user appends for a request, in the order of the code.
ExpectedColumns(b) ==
    (IF b.name.some THEN <<"name">> ELSE <<>>)
    \o (IF b.email.some THEN <<"email">> ELSE <<>>)
    \o <<"updated_at">>

\* The parameter update_user binds for a column of a request.
ExpectedParam(b, col) ==
    CASE col = "name" -> TextParam(trim(b.name.v))
      [] col = "email" -> TextParam(to_lowercase(trim(b.email.v)))
      [] OTHER -> TimeParam(b.at)

SameParam(p, q) == p.ty = q.ty /\ p.v = q.v

\* C1: for every combination of present and absent name and email, the UPDATE
\* statement of update_user assigns the columns name, email, updated_at in that
\* order (the absent ones left out), numbers their placeholders 1..n
\* consecutively, binds as i-th parameter the value of the i-th column, and
\* binds the user id last, as the parameter the WHERE clause refers to, whose
\* number is the total number of parameters.
C1_PlaceholdersConsecutive ==
    built.done =>
        LET st == built.out
            cols == ExpectedColumns(built)
            n == Len(cols)
            k == Len(st.params)
        IN  /\ Len(st.set) = n
            /\ \A i \in 1..n :
                  /\ st.set[i].col = cols[i]
                  /\ st.set[i].ph = i
                  /\ SameParam(st.params[i], ExpectedParam(built, cols[i]))
            /\ k = n + 1
            /\ st.where = k
            /\ SameParam(st.params[k], UuidParam(built.id))

\* A request with both fields present has been built: four parameters.
C1_Witness ==
    /\ built.done
    /\ built.name.some
    /\ built.email.some
    /\ Len(built.out.params) = 4
    /\ built.out.where = 4

ExactlyOneField(req) == req.name.some # req.email.some

\* Task t completes its statement in this step.
Completes(t) == pc[t] = "exec" /\ pc'[t] = "idle"

\* C2: when update_user with exactly one of name and email present returns the
\* user, the row with the given id has that column set to the normalised value
\* and updated_at set to a clock reading taken during the call; its id,
\* created_at and other column are as before, every other user row is as
\* before, and posts and vocabulary are as before.
C2_SingleFieldFrame ==
    [][\A t \in DataTasks :
          (/\ Completes(t)
           /\ op[t].name = "update_user"
           /\ ExactlyOneField(op[t].req)
           /\ res'[t].kind = "Ok")
          => \E old \in users, new \in users' :
                /\ old.id = op[t].id
                /\ new.id = old.id
                /\ new.created_at = old.created_at
                /\ new.name = IF op[t].req.name.some
                              THEN trim(op[t].req.name.v) ELSE old.name
                /\ new.email = IF op[t].req.email.some
                               THEN to_lowercase(trim(op[t].req.email.v))
                               ELSE old.email
                /\ reqStart[t] <= new.updated_at
                /\ new.updated_at <= now
                /\ users' \ {new} = users \ {old}
                /\ res'[t].val.v = new
                /\ posts' = posts
                /\ vocabulary' = vocabulary]_vars

\* A name-only update has returned the user, a second user is stored, and the
\* updated row carries a later updated_at than its created_at.
C2_Witness ==
    \E t \in DataTasks :
        /\ pc[t] = "idle"
        /\ op[t].name = "update_user"
        /\ ExactlyOneField(op[t].req)
        /\ res[t].kind = "Ok"
        /\ res[t].val.v \in users
        /\ res[t].val.v.updated_at > res[t].val.v.created_at
        /\ Cardinality(users) = 2

BothAbsent(o) == o.name = "update_user" /\ ~o.req.name.some /\ ~o.req.email.some

AtLeastOneField == "At least one field (name or email) must be provided for update"

\* C3 (as the code behaves): update_user with name and email both absent
\* returns the Validation error "At least one field (name or email) must be
\* provided for update" from UpdateUserRequest::validate; it returns before it
\* borrows a connection and sends no statement, so no row is touched.
C3_BothAbsentRejected ==
    \A t \in DataTasks :
        BothAbsent(op[t]) =>
            /\ pc[t] = "idle"
            /\ res[t].kind = "Validation"
            /\ res[t].msg = AtLeastOneField
            /\ ~conn[t]
            /\ stmts[t] = 0
            /\ stmt[t].sql = "none"

\* The update with both fields absent was rejected while its user is stored with
\* the updated_at of its creation.
C3_Witness ==
    \E t \in DataTasks :
        /\ BothAbsent(op[t])
        /\ res[t].kind = "Validation"
        /\ \E u \in users : u.id = op[t].id /\ u.updated_at = u.created_at

\* C3 as stated: update_user with both fields absent, for a stored user, sends
\* one statement and returns the user.
C3_AsStated ==
    \A t \in DataTasks :
        (BothAbsent(op[t]) /\ pc[t] = "idle" /\ \E u \in users : u.id = op[t].id)
            => res[t].kind = "Ok" /\ stmts[t] = 1

\* C4: main migrates only after a health check has succeeded; no statement of
\* seed_vocabulary or of a request handler runs, and none is in flight, before
\* migrate has returned Ok; requests are served only after seed_vocabulary has
\* filled (or found filled) the vocabulary; and a process that has exited on a
\* failed step has accepted no request.
C4_StartupOrder ==
    /\ ~early
    /\ mainPc \in {"migrate", "seed", "seeding", "bind", "serving"} => healthOk
    /\ mainPc \in {"seed", "seeding", "bind", "serving"} => migrated
    /\ \A t \in DataTasks : (pc[t] # "idle" \/ stmts[t] > 0) => migrated
    /\ mainPc = "serving" => vocabulary # {}
    /\ mainPc # "serving" =>
          \A t \in DataTasks : op[t].name \in {"none", "seed_vocabulary"}
    /\ mainPc = "exited" => \A t \in DataTasks : pc[t] = "idle" /\ ~conn[t]

\* The server is up after a full startup and a handler's statement has run.
C4_Witness ==
    /\ mainPc = "serving"
    /\ healthOk
    /\ migrated
    /\ \E t \in DataTasks :
          op[t].name = "create_user" /\ stmts[t] = 1 /\ res[t].kind = "Ok"

\* C5 as stated: a caller waiting in get_connection has waited no longer than
\* the configured connection_timeout.
C5_AcquireWithinTimeout ==
    \A t \in Tasks : pc[t] = "acquire" => Elapsed(t) <= ConnectionTimeoutSecs

\* Connections held by tasks whose statement is in flight.
InFlight == Cardinality({t \in Tasks : pc[t] \in {"exec", "seed_insert"}})

\* C6: the number of connections borrowed at the same time, and the number of
\* statements in flight, never exceed max_connections.
C6_BorrowedWithinMax ==
    /\ Borrowed <= MaxConnections
    /\ InFlight <= MaxConnections
    /\ \A t \in Tasks : pc[t] \in {"exec", "seed_insert"} => conn[t]

\* Every connection of the pool is borrowed and one more caller is waiting.
C6_Witness ==
    /\ Borrowed = MaxConnections
    /\ \E t \in Tasks : pc[t] = "acquire"

C8_EmailsDistinctIgnoringCase ==
    \A u, v \in users : u # v => to_lowercase(u.email) # to_lowercase(v.email)

\* Two users are stored, and an update_user that asked for the email of the
\* other one in upper case was refused.
C8_Witness ==
    /\ Cardinality(users) = 2
    /\ \E t \in DataTasks :
          /\ op[t].name = "update_user"
          /\ op[t].req.email = Some(EmailJUpper)
          /\ res[t].kind = "Conflict"
          /\ \E u \in users : u.id # op[t].id /\ u.email = EmailJ

EmailExists(e) == \E u \in users : to_lowercase(u.email) = to_lowercase(trim(e))

\* The statement of task t was lost on its way to the store.
Lost(r) == r.kind = "Database"

\* C9: when the INSERT of create_user reaches a store that holds a user whose
\* email equals the requested one ignoring letter case, create_user returns
\* Conflict "Email address already exists"; in every case the table users is
\* left as it was, and get_user_by_id of a stored user returns that row.
C9_DuplicateEmailConflict ==
    [][\A t \in DataTasks :
          /\ (Completes(t) /\ op[t].name = "create_user" /\ EmailExists(op[t].req.email))
                => /\ users' = users
                   /\ ~Lost(res'[t]) =>
                         /\ res'[t].kind = "Conflict"
                         /\ res'[t].msg = "Email address already exists"
          /\ (Completes(t) /\ op[t].name = "get_user_by_id" /\ ~Lost(res'[t])
              /\ \E u \in users : u.id = op[t].id)
                => /\ res'[t].kind = "Ok"
                   /\ res'[t].val.v \in users
                   /\ res'[t].val.v.id = op[t].id
                   /\ users' = users]_vars

\* create_user with the upper-case spelling was refused while the lower-case
\* spelling is stored.
C9_Witness ==
    \E t \in DataTasks :
        /\ op[t].name = "create_user"
        /\ op[t].req.email = EmailJUpper
        /\ res[t].kind = "Conflict"
        /\ \E u \in users : u.email = EmailJ

\* C10: every stored post refers to a stored user.
C10_PostsReferenceUsers ==
    \A p \in posts : \E u \in users : u.id = p.user_id

\* delete_user has succeeded for the owner of the two stored posts.
C10_Witness ==
    \E t \in DataTasks :
        /\ op[t].name = "delete_user"
        /\ op[t].id = LegacyOwner
        /\ res[t].kind = "Ok"
        /\ ~\E u \in users : u.id = LegacyOwner
        /\ ~\E p \in posts : p.user_id = LegacyOwner

\* C11 as stated: create_post with a valid request whose user_id matches no
\* stored user returns Validation and leaves table posts as it was.
C11_AsStated ==
    [][\A t \in DataTasks :
          (/\ Completes(t)
           /\ op[t].name = "create_post"
           /\ ~\E u \in users : u.id = op[t].req.user_id)
          => /\ res'[t].kind = "Validation"
             /\ posts' = posts]_vars

\* The create operations, and the table each of them inserts into.
Creates == {"create_user", "create_post", "create_vocabulary"}
TableOf(name) ==
    CASE name = "create_user" -> users
      [] name = "create_post" -> posts
      [] OTHER -> vocabulary

\* C12: each successful create_user, create_post and create_vocabulary returns
\* an entity whose id is present, is the id of no row the table held before and
\* of no entity another caller's create of that resource returned, and whose
\* created_at equals its updated_at.
C12_CreatedEntity ==
    [][\A t \in DataTasks :
          (/\ Completes(t)
           /\ op[t].name \in Creates
           /\ res'[t].kind = "Ok")
          => /\ res'[t].val.some
             /\ res'[t].val.v.id # NotAUuid
             /\ res'[t].val.v.created_at = res'[t].val.v.updated_at
             /\ \A r \in TableOf(op[t].name) : r.id # res'[t].val.v.id
             /\ \A s \in DataTasks \ {t} :
                   (op[s].name = op[t].name /\ res[s].kind = "Ok")
                   => res[s].val.v.id # res'[t].val.v.id]_vars

\* Both callers hold the entity a create of the same resource returned, one of
\* them a user and, in the table, a vocabulary entry that create_vocabulary added.
C12_Witness ==
    /\ \A t \in DataTasks : op[t].name = "create_user" /\ res[t].kind = "Ok"
    /\ \E v \in vocabulary : v.id > Len(SeedData)

\* C13 as stated, for posts: create_post with a valid request that references
\* a stored user succeeds, and the entity it returns is the row table posts
\* holds, so that a read by the returned id finds a row equal in every field.
C13_AsStated ==
    [][\A t \in DataTasks :
          (/\ Completes(t)
           /\ op[t].name = "create_post"
           /\ \E u \in users : u.id = op[t].req.user_id)
          => /\ res'[t].kind = "Ok"
             /\ res'[t].val.some
             /\ \E q \in posts' : q = res'[t].val.v]_vars

\* C14 as stated, for posts: get_post_by_id returns the post if a row of that
\* id exists and NotFound if none does, and leaves the tables as they were.
C14_AsStated ==
    [][\A t \in DataTasks :
          (Completes(t) /\ op[t].name = "get_post_by_id")
          => /\ IF \E q \in posts : q.id = op[t].id
                THEN /\ res'[t].kind = "Ok"
                     /\ res'[t].val.some
                     /\ res'[t].val.v \in posts
                     /\ res'[t].val.v.id = op[t].id
                ELSE res'[t].kind = "NotFound"
             /\ UNCHANGED <<users, posts, vocabulary>>]_vars

\* The posts a get_all_posts with filter f selects.
Matching(f) == IF f.some THEN {q \in posts : q.user_id = f.v} ELSE posts

\* C15 as stated, for posts: get_all_posts returns Ok with every stored post
\* (with a user filter: every post of that user) once, latest created_at
\* first, and Ok with the empty sequence when there is none.
C15_AsStated ==
    [][\A t \in DataTasks :
          (/\ Completes(t)
           /\ op[t].name = "get_all_posts"
           /\ ~FilterRejected(op[t]))
          => /\ res'[t].kind = "Ok"
             /\ res'[t].val = Some(OrderedDesc(Matching(op[t].req)))]_vars

\* The entries seed_vocabulary inserts, among the rows tbl.
SeedEntries(tbl) ==
    {v \in tbl : \E i \in 1..Len(SeedData) :
                    v.en_word = SeedData[i].en /\ v.ja_word = SeedData[i].ja}

\* C16: seed_vocabulary inserts its five entries only into an empty table; on a
\* table that holds a row it returns Ok and adds, changes and removes nothing;
\* so each time it has returned, however often it has run on the store, the
\* table holds each of the five entries once.
C16_SeedOnlyWhenEmpty ==
    [][\A t \in DataTasks :
          op[t].name = "seed_vocabulary"
          => /\ (pc[t] = "exec" /\ pc'[t] # "exec" /\ vocabulary # {})
                => /\ vocabulary' = vocabulary
                   /\ pc'[t] = "idle"
                   /\ res'[t].kind = "Ok"
             /\ (pc[t] = "exec" /\ pc'[t] = "seed_insert") => vocabulary = {}
             /\ pc[t] = "seed_insert"
                => /\ SeedEntries(vocabulary) = vocabulary
                   /\ Cardinality(vocabulary) = seedIdx[t] - 1
             /\ (pc[t] # "idle" /\ pc'[t] = "idle" /\ res'[t].kind = "Ok")
                => /\ Cardinality(SeedEntries(vocabulary')) = Len(SeedData)
                   /\ \A i \in 1..Len(SeedData) :
                         \E v \in vocabulary' : v.en_word = SeedData[i].en]_vars

\* seed_vocabulary has returned Ok after its COUNT alone, in a run of the
\* process on a store that an earlier run has seeded and written a user to.
C16_Witness ==
    /\ op[MainTask].name = "seed_vocabulary"
    /\ res[MainTask].kind = "Ok"
    /\ stmts[MainTask] = 1
    /\ users # {}
    /\ Cardinality(vocabulary) = Len(SeedData)

\* C17: migrate run on a store that migrate has already migrated returns Ok and
\* leaves the schema (extension, tables, indexes, the cascading foreign key of
\* posts) and every row of every table as they were; and a migrate that
\* returns Ok leaves the store migrated.
C17_MigrateIdempotent ==
    [][(mainPc = "migrate" /\ mainPc' # "migrate")
       => /\ Migrated \subseteq schema
             => /\ mainPc' = "seed"
                /\ migrated'
                /\ schema' = schema
                /\ UNCHANGED <<users, posts, vocabulary, vocabSeq>>
          /\ migrated' => Migrated \subseteq schema']_vars

\* migrate has returned Ok on a store that holds a user and vocabulary, the
\* rows of an earlier run of the process.
C17_Witness ==
    /\ mainPc = "seed"
    /\ migrated
    /\ users # {}
    /\ vocabulary # {}
    /\ schema = Migrated

\* The raw failure is one of the pool or of the connection: the pool timed out
\* or is closed, the SQLSTATE is of class 08, the statement was cancelled by
\* its timeout, or the driver reports without SQLSTATE a lost connection or a
\* timeout.
TransportFailure(m) ==
    \/ m.src = "pool" /\ m.pool \in {"Timeout", "Closed"}
    \/ /\ m.src = "postgres"
       /\ \/ m.raw.code \in ConnectionStates
          \/ m.raw.code = "QUERY_CANCELED"
          \/ m.raw.code = "none" /\ m.raw.words \cap {"connection", "timeout"} # {}

\* The response tells the caller that the service is unavailable.
SaysUnavailable(body) ==
    /\ body.code = "DATABASE_ERROR"
    /\ body.message \in {<<"Database service is temporarily unavailable">>,
                         <<"Database operation timed out, please try again">>}

\* C18 as stated: every failure of the pool or of the connection, with or
\* without an SQLSTATE, and every statement timeout is answered as unavailable.
C18_AsStated ==
    (mapped.step = 2 /\ TransportFailure(mapped)) => SaysUnavailable(mapped.body)

\* The raw error is one the conversion has no arm for.
Unhandled(e) ==
    e.code \notin {"UNIQUE_VIOLATION", "FOREIGN_KEY_VIOLATION", "NOT_NULL_VIOLATION",
                   "CHECK_VIOLATION", "INVALID_TEXT_REPRESENTATION",
                   "NUMERIC_VALUE_OUT_OF_RANGE", "STRING_DATA_LENGTH_MISMATCH",
                   "INSUFFICIENT_PRIVILEGE"} \cup ConnectionStates

\* C19 as stated: an insufficient-privilege error is answered with a kind of
\* its own, one the caller can tell from the answer to an unhandled error:
\* the ApiError variant differs or the response differs.
C19_AsStated ==
    (mapped.step = 2 /\ mapped.src = "postgres"
     /\ mapped.raw.code = "INSUFFICIENT_PRIVILEGE")
    => \A e \in RawErrors :
          Unhandled(e)
          => \/ FromPostgresError(e).kind # mapped.api.kind
             \/ IntoResponse(FromPostgresError(e)) # mapped.body

\* The category of the taxonomy an ApiError and its response stand for.
Category(api) ==
    CASE api.kind = "Conflict" -> "Conflict"
      [] api.kind = "Validation" -> "ValidationFailed"
      [] api.kind = "NotFound" -> "NotFound"
      [] api.kind = "Database" /\ SaysUnavailable(IntoResponse(api)) -> "Unavailable"
      [] OTHER -> "Unknown"

\* The messages the conversions and into_response are written with.
CannedMessages ==
    {<<"Email address already exists">>, <<"Resource already exists">>,
     <<"Referenced resource does not exist">>,
     <<"Required field 'name' is missing">>, <<"Required field 'email' is missing">>,
     <<"Required field is missing">>, <<"Data validation constraint violated">>,
     <<"Invalid data format provided">>, <<"Numeric value is out of range">>,
     <<"Text data exceeds maximum length">>,
     <<"Database operation timed out, please try again">>,
     <<"Database service is temporarily unavailable">>,
     <<"A database error occurred">>, <<"An internal server error occurred">>}

\* Two raw errors the conversion cannot tell apart: the same SQLSTATE and the
\* same answers to contains("email") and contains("name").
SameToConversion(e, f) ==
    /\ e.code = f.code
    /\ ("email" \in e.words) = ("email" \in f.words)
    /\ ("name" \in e.words) = ("name" \in f.words)

\* C20: the message of the response to a backend failure is one of a fixed set
\* of canned strings, fixed by the SQLSTATE (or the kind of pool error) and by
\* whether the raw text contains "email" and "name"; nothing else of the raw
\* text reaches it.
C20_CannedMessage ==
    mapped.step = 2
    => /\ mapped.body.message \in CannedMessages
       /\ mapped.src = "postgres"
          => \A e \in RawErrors :
                SameToConversion(e, mapped.raw)
                => IntoResponse(FromPostgresError(e)) = mapped.body

\* A unique violation whose text names the email constraint has been answered.
C20_Witness ==
    /\ mapped.step = 2
    /\ mapped.src = "postgres"
    /\ mapped.raw.code = "UNIQUE_VIOLATION"
    /\ mapped.raw.words = {"email", "connection"}
    /\ mapped.body.message = <<"Email address already exists">>

\* C20 as stated: two raw errors of the same category get the same message,
\* whatever their raw text.
C20_AsStated ==
    (mapped.step = 2 /\ mapped.src = "postgres")
    => \A e \in RawErrors :
          Category(FromPostgresError(e)) = Category(mapped.api)
          => IntoResponse(FromPostgresError(e)).message = mapped.body.message

\* The statements an operation sends at most: seed_vocabulary its COUNT and one
\* INSERT per seed entry, every other operation one.
MaxStatements(o) == IF o.name = "seed_vocabulary" THEN 1 + Len(SeedData) ELSE 1

\* C21: an operation borrows a connection at most once and sends each of its
\* statements at most once; when the borrow or a statement fails it returns an
\* error in that very step, never Ok, gives the connection back and sends no
\* further statement.
C21_NoRetryNoSwallow ==
    [][\A t \in DataTasks :
          /\ (failed[t] = "none" /\ failed'[t] # "none")
             => /\ pc'[t] = "idle"
                /\ res'[t].kind \notin {"Ok", "none"}
                /\ ~conn'[t]
                /\ failed'[t] = "borrow" => stmts'[t] = 0
          /\ (failed[t] # "none" /\ failed'[t] # "none")
             => /\ pc'[t] = "idle"
                /\ stmts'[t] = stmts[t]
                /\ res'[t] = res[t]
          /\ pc'[t] = "acquire" => pc[t] \in {"idle", "acquire"}
          /\ stmts'[t] <= stmts[t] + 1
          /\ stmts'[t] <= MaxStatements(op'[t])]_vars

\* One caller's borrow has failed and the other's statement has.
C21_Witness ==
    /\ failed[1] = "borrow"
    /\ res[1].kind = "Database"
    /\ failed[2] = "statement"
    /\ res[2].kind = "Database"
    /\ stmts[2] = 1

\* C22 as stated: every update_user that succeeds leaves updated_at of the row
\* strictly greater than it was, whatever the row was before.
C22_AsStated ==
    [][\A t \in DataTasks :
          (/\ Completes(t)
           /\ op[t].name = "update_user"
           /\ res'[t].kind = "Ok")
          => \A u \in users :
                u.id = op[t].id => res'[t].val.v.updated_at > u.updated_at]_vars

\* C23: whatever string the configuration holds for the transport security,
\* the pool is built with Disable only for "disable", with Prefer only for
\* "prefer" and with Require for "require" and for every other value; the
\* substitution is logged exactly when the value is none of the three, and no
\* value other than "disable" and "prefer" gives a mode weaker than Require.
C23_SslModeSelection ==
    setup.step = "pool" =>
       LET s == setup.config.ssl_mode
           m == setup.pg.ssl_mode
       IN  /\ m = "Disable" <=> s = "disable"
           /\ m = "Prefer" <=> s = "prefer"
           /\ s \notin {"disable", "prefer"} => m = "Require"
           /\ setup.pg.warned <=> s \notin {"disable", "prefer", "require"}
           /\ s \notin {"disable", "prefer"} => Strength(m) >= Strength("Require")

\* A pool built from "verify-full", which validate lets through: Require, logged.
C23_Witness ==
    /\ setup.step = "pool"
    /\ setup.config.ssl_mode = "verify-full"
    /\ setup.pg.ssl_mode = "Require"
    /\ setup.pg.warned

\* C24: an address that names a local file is accepted as well as a network
\* address: loading it never fails, and a pool is built on the file-resident
\* store.
C24_AsStated ==
    (setup.step \notin {"none", "env"} /\ setup.env.url.some
        /\ setup.env.url.v.scheme \in LocalSchemes)
    => setup.step # "failed"

\* The ids of the stored users.
StoredIds == {u.id : u \in users}

\* C25: update_user and delete_user on a well-formed id that no row has return
\* NotFound and leave every table as it was (update_user never inserts), so a
\* second delete_user of one id returns NotFound; and whatever update_user and
\* delete_user calls on one id are in flight together, a deleted user does not
\* come back: a row appears only by an INSERT of create_user, under the id that
\* call has drawn, and while the caller of a successful delete_user rests, the
\* id it deleted is not stored.
C25_MissingRowNotFound ==
    [][/\ \A t \in DataTasks :
             (/\ Completes(t)
              /\ failed'[t] = "none"
              /\ op[t].name \in {"update_user", "delete_user"}
              /\ op[t].id \notin StoredIds)
             => /\ res'[t].kind = "NotFound"
                /\ users' = users
                /\ posts' = posts
                /\ vocabulary' = vocabulary
       /\ \A t \in DataTasks :
             (Completes(t) /\ op[t].name = "delete_user" /\ res'[t].kind = "Ok")
             => op[t].id \notin {u.id : u \in users'}
       /\ \A id \in UserIds :
             (id \notin StoredIds /\ id \in {u.id : u \in users'})
             => \E t \in DataTasks :
                   /\ Completes(t)
                   /\ op[t].name = "create_user"
                   /\ stmt[t].row.id = id
                   /\ \A o \in DataTasks \ {t} :
                         pc[o] # "idle" /\ op[o].name = "create_user"
                         => stmt[o].row.id # id
       /\ \A t \in DataTasks :
             (/\ pc[t] = "idle" /\ op[t].name = "delete_user" /\ res[t].kind = "Ok"
              /\ pc'[t] = "idle")
             => op[t].id \notin {u.id : u \in users'}]_vars

\* The user has been deleted by one caller and an update_user of the same id
\* by the other has found no row.
C25_Witness ==
    /\ pc[1] = "idle" /\ op[1].name = "delete_user" /\ res[1].kind = "Ok"
    /\ pc[2] = "idle" /\ op[2].name = "update_user" /\ op[2].id = op[1].id
    /\ res[2].kind = "NotFound"
    /\ stmts[2] = 1
    /\ op[1].id \notin StoredIds

\* The operations that write.
WriteOps ==
    {"create_user", "create_post", "create_vocabulary", "update_user",
     "delete_user", "seed_vocabulary"}

\* C26: a write operation that returns an error has changed no table: the
\* step that returns the error changes none, and seed_vocabulary returns its
\* error with none or all of the seed entries stored, never a part of them.
C26_AsStated ==
    [][\A t \in DataTasks :
          (/\ pc[t] # "idle" /\ pc'[t] = "idle"
           /\ op[t].name \in WriteOps
           /\ res'[t].kind \notin {"Ok", "none"})
          => /\ users' = users
             /\ posts' = posts
             /\ vocabulary' = vocabulary
             /\ op[t].name = "seed_vocabulary"
                => Cardinality(SeedEntries(vocabulary')) \in {0, Len(SeedData)}]_vars

\* The input of the operation is one its validation or its id parsing rejects.
InputRejected(o) == PreCheck(o) # Valid \/ FilterRejected(o)

\* C27: an operation whose input is rejected has returned a Validation error
\* at once: it never waits for a connection, never holds one and has sent no
\* statement.
C27_AsStated ==
    \A t \in DataTasks :
       (op[t].name # "none" /\ InputRejected(op[t]))
       => /\ pc[t] = "idle"
          /\ ~conn[t]
          /\ stmts[t] = 0
          /\ res[t].kind = "Validation"

\* C28: an operation that has returned, by whichever exit, holds no
\* connection; so when no operation is under way no connection is borrowed.
C28_ConnectionsReturned ==
    /\ \A t \in Tasks : pc[t] = "idle" => ~conn[t]
    /\ (\A t \in Tasks : pc[t] = "idle") => Borrowed = 0

\* Both callers have returned after borrowing, one with the error of a lost
\* statement and one with NotFound, and the pool has all its connections.
C28_Witness ==
    /\ \A t \in Tasks : pc[t] = "idle"
    /\ failed[1] = "statement" /\ res[1].kind = "Database" /\ stmts[1] = 1
    /\ res[2].kind = "NotFound" /\ stmts[2] = 1
    /\ Borrowed = 0

\* C29: two seed_vocabulary calls that run together on an empty table leave
\* exactly the five seed entries when both have returned Ok.
C29_AsStated ==
    (\A t \in {MainTask, OtherTask} :
        pc[t] = "idle" /\ op[t].name = "seed_vocabulary" /\ res[t].kind = "Ok")
    => /\ Cardinality(vocabulary) = Len(SeedData)
       /\ Cardinality(SeedEntries(vocabulary)) = Len(SeedData)

\* Text without whitespace at either end.
Trimmed(s) == s = <<>> \/ (~IsWhitespace(s[1]) /\ ~IsWhitespace(s[Len(s)]))

\* out is what is left of text when the whitespace around it is cut off.
IsTrimOf(out, text) ==
    /\ Trimmed(out)
    /\ \E i \in 1..(Len(text) + 1), j \in 0..Len(text) :
          /\ out = SubSeq(text, i, j)
          /\ \A k \in 1..Len(text) : (k < i \/ k > j) => IsWhitespace(text[k])

\* out is absent when text is absent or blank, and its trimmed text otherwise.
IsNormalizedOptional(out, text) ==
    IF text.some /\ \E k \in 1..Len(text.v) : ~IsWhitespace(text.v[k])
    THEN out.some /\ IsTrimOf(out.v, text.v)
    ELSE ~out.some

\* C30: what a create operation stores is the request normalised: the user's
\* name, the post's title and the vocabulary entry's two words without the
\* whitespace around them, and the post's content and the entry's two examples
\* absent when nothing but whitespace was given; no stored optional text is
\* the empty string.  For a post this is the row bound to the INSERT.
C30_StoredNormalized ==
    [][\A t \in DataTasks :
          /\ (Completes(t) /\ res'[t].kind = "Ok" /\ op[t].name = "create_user")
             => /\ IsTrimOf(res'[t].val.v.name, op[t].req.name)
                /\ res'[t].val.v \in users'
          /\ (Completes(t) /\ res'[t].kind = "Ok" /\ op[t].name = "create_vocabulary")
             => /\ IsTrimOf(res'[t].val.v.en_word, op[t].req.en_word)
                /\ IsTrimOf(res'[t].val.v.ja_word, op[t].req.ja_word)
                /\ IsNormalizedOptional(res'[t].val.v.en_example, op[t].req.en_example)
                /\ IsNormalizedOptional(res'[t].val.v.ja_example, op[t].req.ja_example)
                /\ res'[t].val.v \in vocabulary'
          /\ (pc[t] = "exec" /\ op[t].name = "create_post")
             => /\ IsTrimOf(stmt[t].row.title, op[t].req.title)
                /\ IsNormalizedOptional(stmt[t].row.content, op[t].req.content)
          /\ \A u \in users' : Trimmed(u.name) /\ u.name # <<>>
          /\ \A q \in posts' : Trimmed(q.title) /\ q.content # Some(<<>>)
          /\ \A v \in vocabulary' :
                /\ Trimmed(v.en_word) /\ Trimmed(v.ja_word)
                /\ v.en_example # Some(<<>>) /\ v.ja_example # Some(<<>>)]_vars

\* A vocabulary entry stored from a padded word and a blank example, and a
\* post about to be inserted whose blank content is bound as null.
C30_Witness ==
    /\ pc[1] = "idle" /\ op[1].name = "create_vocabulary" /\ res[1].kind = "Ok"
    /\ op[1].req.en_word = <<" ", "w", " ">> /\ res[1].val.v.en_word = <<"w">>
    /\ op[1].req.en_example = Some(<<" ">>) /\ ~res[1].val.v.en_example.some
    /\ res[1].val.v \in vocabulary
    /\ pc[2] = "exec" /\ op[2].name = "create_post"
    /\ op[2].req.content = Some(<<" ">>) /\ ~stmt[2].row.content.some

=============================================================================
